---- MODULE Spec2Model ----
(***************************************************************************)
(* rental-recon: the travel-time estimator (app/services/travel_time.py)   *)
(* and the property API that calls it (app/routers/property.py).           *)
(*                                                                         *)
(* One call of TravelTimeService.calculate_travel_times is a process whose *)
(* steps are its interactions with the outside: the readings of the system *)
(* clock, the routing requests and the geocoding requests.  A request to   *)
(* the property API is one step, or two when its handler calls the         *)
(* estimator: the part before the call and the part after it.              *)
(*                                                                         *)
(* Conventions                                                             *)
(*   - an optional value (Python None or a value) is a set with at most    *)
(*     one element: {} is None, {v} is v;                                  *)
(*   - a dict is a function whose DOMAIN is the set of keys present;       *)
(*   - a wall-clock moment is a record day/hour/minute/second/microsecond, *)
(*     day counting the days since 1970-01-01 (a Thursday); the local time *)
(*     zone is taken to be UTC;                                            *)
(*   - a number of minutes is kept in fixed point, in hundredths of a      *)
(*     minute: Minutes(13) = 1300 is 13 minutes, 7800 is 78.0 minutes.     *)
(***************************************************************************)
EXTENDS Integers, Sequences, FiniteSets, TLC

(* ------------------------------ bounds -------------------------------- *)

\* the number of API requests of a behaviour
MaxRequests == 4

\* the largest property id that a request names
MaxPropertyId == 2

\* the largest number of properties that are stored when the API starts to
\* be served
MaxStored == 101

\* last day the clock may reach (days since 1970-01-01)
MaxDay == 7

\* day_offset ranges over -MaxOffset .. MaxOffset
MaxOffset == 1

\* the routing durations of a call are 600 s * (1 .. MaxDurationSteps)
MaxDurationSteps == 3

\* the durations given to _get_travel_time alone range over 0 .. MaxSeconds
MaxSeconds == 200

(* ------------------------------ values -------------------------------- *)

None == {}

Some(v) == {v}

\* the value of a non-None optional
The(opt) == CHOOSE v \in opt : TRUE

EmptyDict == [k \in {} |-> {}]

\* d[k] = v, as a dict assignment
Put(d, k, v) == (k :> v) @@ d

(* ------------------------------- slots -------------------------------- *)

\* the keys of time_slots, in insertion (= iteration) order
SlotKeys ==
    << "travel_time_830am", "travel_time_930am", "travel_time_midday",
       "travel_time_630pm", "travel_time_730pm" >>

\* hour and minute passed to _get_departure_time for each key
SlotTime ==
    << <<8, 30>>, <<9, 30>>, <<12, 0>>, <<18, 30>>, <<19, 30>> >>

NumSlots == Len(SlotKeys)

SlotKeySet == { SlotKeys[i] : i \in 1..NumSlots }

DisplayKey(key) == key \o "_display"

AnomalyKey(key) == key \o "_anomaly"

NoteKey(key) == key \o "_note"

(* ------------------------------- clock -------------------------------- *)

\* the times of day at which the clock is sampled
TimesOfDay ==
    { [hour |-> 8,  minute |-> 30, second |-> 0,  microsecond |-> 0],
      [hour |-> 23, minute |-> 59, second |-> 59, microsecond |-> 999999] }

Moment(d, t) ==
    [day |-> d, hour |-> t.hour, minute |-> t.minute,
     second |-> t.second, microsecond |-> t.microsecond]

Moments == { Moment(d, t) : d \in 0..MaxDay, t \in TimesOfDay }

\* m1 is strictly before m2
Before(m1, m2) ==
    \/ m1.day < m2.day
    \/ /\ m1.day = m2.day
       /\ \/ m1.hour < m2.hour
          \/ m1.hour = m2.hour /\ m1.minute < m2.minute
          \/ m1.hour = m2.hour /\ m1.minute = m2.minute /\ m1.second < m2.second
          \/ /\ m1.hour = m2.hour /\ m1.minute = m2.minute
             /\ m1.second = m2.second /\ m1.microsecond < m2.microsecond

\* datetime.weekday(): Monday is 0; 1970-01-01 was a Thursday (3)
Weekday(d) == (d + 3) % 7

\* int(datetime.timestamp())
Timestamp(m) ==
    m.day * 86400 + m.hour * 3600 + m.minute * 60 + m.second

\* datetime.fromtimestamp(ts), for a whole number of seconds
FromTimestamp(ts) ==
    LET d == ts \div 86400
        s == ts % 86400
    IN  [day |-> d, hour |-> s \div 3600, minute |-> (s % 3600) \div 60,
         second |-> s % 60, microsecond |-> 0]

DayOffsets == (0 - MaxOffset) .. MaxOffset

\* _get_departure_time without lines 108-109: today may be the target day
_get_departure_time_SameDay(now_, hour, minute, day_offset, use_tuesday) ==
    LET target_weekday == IF use_tuesday THEN 1 ELSE 0
        days_ahead == (target_weekday - Weekday(now_.day)) % 7
        target_date == [now_ EXCEPT !.day = now_.day + days_ahead + day_offset]
        departure_time ==
            [target_date EXCEPT !.hour = hour, !.minute = minute,
                                !.second = 0, !.microsecond = 0]
    IN  Timestamp(departure_time)

\* _get_departure_time(hour, minute, day_offset, use_tuesday), the clock
\* reading now
_get_departure_time(now_, hour, minute, day_offset, use_tuesday) ==
    LET target_weekday == IF use_tuesday THEN 1 ELSE 0
        days_ahead0 == (target_weekday - Weekday(now_.day)) % 7
        days_ahead == IF days_ahead0 = 0 THEN 7 ELSE days_ahead0
        target_date == [now_ EXCEPT !.day = now_.day + days_ahead + day_offset]
        departure_time ==
            [target_date EXCEPT !.hour = hour, !.minute = minute,
                                !.second = 0, !.microsecond = 0]
    IN  Timestamp(departure_time)

(* ---------------------------- arithmetic ------------------------------ *)

Minutes(n) == 100 * n

Abs(n) == IF n < 0 THEN 0 - n ELSE n

Max(a, b) == IF a >= b THEN a ELSE b

\* Python's round() of the double nearest to num/den (num >= 0, den > 0):
\* the nearest integer.  When num/den is a decimal tie (k + 1/2) the double
\* that the program holds lies on either side of it or on it
\* (round(5.0 * 0.7) = 4 and round(45.0 * 0.7) = 31, round(3 / 60, 1) = 0.1
\* and round(9 / 60, 1) = 0.1), so both neighbours are outcomes.
Nearest(num, den) ==
    LET f == num \div den
    IN  { n \in {f, f + 1} : 2 * Abs(n * den - num) <= den }

\* round(x), x = num/den hundredths of a minute: whole minutes
Round(num, den) == { Minutes(n) : n \in Nearest(num, 100 * den) }

\* str(n) of a whole number of minutes in fixed point
Str(x) == ToString(x \div 100)

(* ------------------------- the routing service ------------------------ *)

\* one element of rows[0]['elements']; a duration is the 'value' (seconds)
\* of the duration object, None when the object is missing
Element(status, duration_in_traffic, duration) ==
    [status |-> status, duration_in_traffic |-> duration_in_traffic,
     duration |-> duration]

Row(elements) == [elements |-> elements]

\* the JSON body of a distance-matrix answer
Body(status, rows) == [status |-> status, rows |-> rows]

\* what requests.get() gives: the transport outcome and, when the body is
\* JSON, the body
Response(transport, body) == [transport |-> transport, body |-> body]

NoResponse == Response("none", None)

OkResponse(duration_in_traffic, duration) ==
    Response("HTTP 200",
        Some(Body("OK", << Row(<< Element("OK", duration_in_traffic, duration) >>) >>)))

\* the answers that make one slot fail
FailingResponses ==
    { Response("ConnectionError", None),
      Response("HTTP 500", None),
      Response("HTTP 200", None),
      Response("HTTP 200", Some(Body("REQUEST_DENIED", << >>))),
      Response("HTTP 200", Some(Body("OK", << >>))),
      Response("HTTP 200", Some(Body("OK", << Row(<< >>) >>))),
      Response("HTTP 200",
          Some(Body("OK", << Row(<< Element("ZERO_RESULTS", None, None) >>) >>))),
      OkResponse(None, None) }

\* the durations (seconds) the routing service answers within a call
Durations == { 600 * i : i \in 1..MaxDurationSteps }

OptDurations(D) == {None} \cup { Some(d) : d \in D }

OkResponses(D) ==
    { OkResponse(t, n) : t \in OptDurations(D), n \in OptDurations(D) }
        \ { OkResponse(None, None) }

RoutingResponses == FailingResponses \cup OkResponses(Durations)

\* TravelTimeData with the typical time for the conservative value
TravelTimeData_ConservativeTypical(typical_time, min_time, max_time) ==
    [min |-> min_time, max |-> max_time, typical |-> typical_time,
     display |-> Str(min_time) \o "-" \o Str(max_time),
     conservative |-> typical_time]

\* the dict that _get_travel_time returns
TravelTimeData(typical_time, min_time, max_time) ==
    [min |-> min_time, max |-> max_time, typical |-> typical_time,
     display |-> Str(min_time) \o "-" \o Str(max_time),
     conservative |-> max_time]

\* round(seconds / 60, 1)
TypicalTime(seconds) == { 10 * t : t \in Nearest(seconds * 10, 60) }

\* MinTime without max(1, ...)
MinTime_NoClamp(typical_time) == Round(typical_time * 7, 10)

\* max(1, round(typical_time * 0.7))
MinTime(typical_time) ==
    { Max(Minutes(1), m) : m \in Round(typical_time * 7, 10) }

\* round(typical_time * 1.3)
MaxTime(typical_time) == Round(typical_time * 13, 10)

\* lines 152-169 of _get_travel_time: the estimates of a duration in seconds
Estimates(seconds) ==
    UNION { { TravelTimeData(t, mn, mx) : mn \in MinTime(t), mx \in MaxTime(t) } :
            t \in TypicalTime(seconds) }

\* what a function call gives: an exception or a value
Raise(e) == [exception |-> Some(e), value |-> None]

Return(v) == [exception |-> None, value |-> Some(v)]

\* _get_travel_time, the answer r to its request given: the set of its
\* outcomes (one, but for the rounding of a decimal tie)
_get_travel_time(r) ==
    IF r.transport = "ConnectionError" THEN {Raise("ConnectionError")}
    ELSE IF r.transport # "HTTP 200" THEN {Raise("HTTPError")}
    ELSE IF r.body = None THEN {Raise("JSONDecodeError")}
    ELSE
      LET data == The(r.body)
      IN  IF data.status # "OK"
          THEN {Raise("Google Maps API error: " \o data.status)}
          ELSE IF data.rows = << >> \/ data.rows[1].elements = << >>
          THEN {Raise("No route found")}
          ELSE
            LET element == data.rows[1].elements[1]
                chosen == IF element.duration_in_traffic # None
                          THEN element.duration_in_traffic
                          ELSE element.duration
            IN  IF element.status # "OK"
                THEN {Raise("Route calculation error: " \o element.status)}
                ELSE IF element.duration_in_traffic = None
                        /\ element.duration = None
                THEN {Raise("No duration data available")}
                ELSE { Return(d) : d \in Estimates(The(chosen)) }

(* ------------------------ the geocoding service ----------------------- *)

\* A geocoded point.  The points of the model lie on one meridian (lon = 0)
\* and lat is the arc from the equator in units of 10 m, so that the
\* great-circle distance of two points is the difference of their lat.
Coords(lat, lon) == [lat |-> lat, lon |-> lon]

\* 0 m, 20 m, 200 m and 40 km up the meridian
GeoPoints == { Coords(0, 0), Coords(2, 0), Coords(20, 0), Coords(4000, 0) }

\* the answers of the geocoding service: the body is the JSON array
GeocodingResponses ==
    { Response("ConnectionError", None),
      Response("HTTP 500", None),
      Response("HTTP 200", None),
      Response("HTTP 200", Some(<< >>)),
      Response("HTTP 200", Some(<< [display_name |-> "Rental Ave"] >>)) }
      \cup { Response("HTTP 200", Some(<< c >>)) : c \in GeoPoints }

\* _geocode_address without "if data": an empty array gives the point (0, 0)
_geocode_address_EmptyIsEquator(r) ==
    IF r.transport # "HTTP 200" THEN None
    ELSE IF r.body = None THEN None
    ELSE IF The(r.body) = << >> THEN Some(Coords(0, 0))
    ELSE IF ~({"lat", "lon"} \subseteq DOMAIN The(r.body)[1]) THEN None
    ELSE Some(Coords(The(r.body)[1].lat, The(r.body)[1].lon))

\* _geocode_address, the answer r to its request given: every exception
\* (transport, HTTP status, no JSON, no lat or lon in the first element) is
\* caught and gives None, and so does an empty array
_geocode_address(r) ==
    IF r.transport # "HTTP 200" THEN None
    ELSE IF r.body = None THEN None
    ELSE IF The(r.body) = << >> THEN None
    ELSE IF ~({"lat", "lon"} \subseteq DOMAIN The(r.body)[1]) THEN None
    ELSE Some(Coords(The(r.body)[1].lat, The(r.body)[1].lon))

\* _haversine_distance, in units of 10 m, of two points of one meridian
_haversine_distance(lat1, lon1, lat2, lon2) == Abs(lat2 - lat1)

\* _estimate_base_travel_time, the two geocoding results given: None, or
\* round((distance_km / 40) * 60, 1), that is distance * 15 / 100 tenths of a
\* minute, rounded
_estimate_base_travel_time(origin_coords, dest_coords) ==
    IF origin_coords = None \/ dest_coords = None THEN {None}
    ELSE
      LET o == The(origin_coords)
          d == The(dest_coords)
          distance == _haversine_distance(o.lat, o.lon, d.lat, d.lon)
      IN  { Some(10 * t) : t \in Nearest(distance * 15, 100) }

\* FallbackMultipliers with the two rush hours exchanged
FallbackMultipliers_RushHoursSwapped == << 14, 11, 10, 13, 12 >>

\* the traffic multipliers of the five slots, in tenths
FallbackMultipliers == << 13, 11, 10, 14, 12 >>

\* base_time * m if base_time else None
FallbackValue(base_time, i) ==
    IF base_time = None \/ base_time = Some(0) THEN None
    ELSE Some((The(base_time) * FallbackMultipliers[i]) \div 10)

\* the display strings that lines 193-201 can give to a value
FallbackDisplay(val) ==
    IF val = None THEN {"N/A"}
    ELSE { Str(Max(Minutes(1), mn)) \o "-" \o Str(mx) :
             mn \in Round(The(val) * 7, 10), mx \in Round(The(val) * 13, 10) }

\* the for loop of lines 193-201 from slot i on: the dicts it can leave
RECURSIVE AddDisplays(_, _)
AddDisplays(d, i) ==
    IF i > NumSlots THEN {d}
    ELSE UNION { AddDisplays(Put(d, DisplayKey(SlotKeys[i]), s), i + 1) :
                 s \in FallbackDisplay(d[SlotKeys[i]]) }

\* _fallback_calculation with a flag on the 08:30 slot when its value is
\* above the midday value
_fallback_calculation_FlagsRushHour(base_time) ==
    LET travel_times_ ==
          [k \in SlotKeySet |->
             FallbackValue(base_time,
                           CHOOSE i \in 1..NumSlots : SlotKeys[i] = k)]
        flagged ==
          IF travel_times_["travel_time_830am"] # None
          THEN Put(travel_times_, AnomalyKey("travel_time_830am"), TRUE)
          ELSE travel_times_
    IN  AddDisplays(flagged, 1)

\* _fallback_calculation, base_time given: the dicts it can return.  The
\* handlers of lines 203-211 and 236-238 are never entered: _geocode_address
\* catches its own exceptions and nothing else in the try blocks raises.
_fallback_calculation(base_time) ==
    LET travel_times_ ==
          [k \in SlotKeySet |->
             FallbackValue(base_time,
                           CHOOSE i \in 1..NumSlots : SlotKeys[i] = k)]
    IN  AddDisplays(travel_times_, 1)

(* ------------------------------- state -------------------------------- *)

VARIABLES
    api_key,            \* self.api_key: None or the key
    now,                \* the system clock
    pc,                 \* where the call stands
    args,               \* origin, destination, use_tuesday, day_offset
    slot,               \* the slot the loop at hand is at, 1..NumSlots
    time_slots,         \* time_slots: key -> departure time (unix seconds)
    travel_times,       \* travel_times of calculate_travel_times
    all_times,          \* all_times
    anomaly_detected,   \* anomaly_detected
    origin_coords,      \* origin_coords of _estimate_base_travel_time
    requests,           \* the outbound requests of the call, in order
    response,           \* the answer to the last request
    travel_time_data,   \* what the last _get_travel_time gave
    raised,             \* the exception that left the call, or None
    result,             \* the dict the call returned, or None
    settings,           \* the settings row: None, or its origin_address
    properties,         \* table properties: id -> row
    property_images,    \* table property_images: a set of rows
    property_notes,     \* table property_notes: a set of rows
    files,              \* the files under app/static/images
    uuids,              \* the number of uuid4() values drawn so far
    request,            \* the API request at hand, or the last one served
    http_response,      \* the answer to it
    served,             \* the number of API requests so far
    db_file,            \* data/rentals.db: None, or when it was last written
    backup_files,       \* the directory backups: filename -> mtime and ctime
    backup_config,      \* backups/backup_config.json: None, or its content
    backup_result,      \* what the last call of the backup service returned
    backup_calls        \* the number of calls of the backup service so far

\* the state of the travel-time service and of its call
service ==
    << api_key, now, pc, args, slot, time_slots, travel_times, all_times,
       anomaly_detected, origin_coords, requests, response, travel_time_data,
       raised, result >>

\* the database and the image directory
database == << settings, properties, property_images, property_notes, files,
               uuids >>

\* the database file and the backup directory
backup_service ==
    << db_file, backup_files, backup_config, backup_result, backup_calls >>

\* the state of the property API and of the backup service
store == << database, request, http_response, served, backup_service >>

vars == << service, store >>

\* the local state of a call
locals ==
    << slot, time_slots, travel_times, all_times, anomaly_detected,
       origin_coords, travel_time_data >>

ApiKeys == { None, Some("API-KEY") }

\* None is a missing argument
Origins == { None, Some(""), Some("1 Home Rd") }

Destinations == { None, Some(""), Some("9 Rental Ave") }

NoArgs ==
    [origin |-> None, destination |-> None, use_tuesday |-> FALSE,
     day_offset |-> 0]

\* the clock when the service starts: a Thursday, late in the evening
StartOfService ==
    [day |-> 0, hour |-> 23, minute |-> 59, second |-> 59,
     microsecond |-> 999999]

InitLocals ==
    /\ slot = 1
    /\ time_slots = EmptyDict
    /\ travel_times = EmptyDict
    /\ all_times = << >>
    /\ anomaly_detected = FALSE
    /\ origin_coords = None
    /\ travel_time_data = None

\* an API request: the handler, the property it names and the form it
\* submits
Request(handler, property_id, form) ==
    [handler |-> handler, property_id |-> property_id, form |-> form]

NoRequest == Request("none", None, None)

\* the answer to an API request: the status code and the JSON body
HttpResponse(status, body) == [status |-> status, body |-> body]

NoHttpResponse == HttpResponse(0, None)

\* BackupService(): the database file is there, the backup directory is
\* empty
InitBackups ==
    /\ db_file = Some(StartOfService)
    /\ backup_files = EmptyDict
    /\ backup_config = None
    /\ backup_result = None
    /\ backup_calls = 0

\* the empty database (Base.metadata.create_all) and no request yet
InitStore ==
    /\ settings = None
    /\ properties = EmptyDict
    /\ property_images = {}
    /\ property_notes = {}
    /\ files = {}
    /\ uuids = 0
    /\ request = NoRequest
    /\ http_response = NoHttpResponse
    /\ served = 0
    /\ InitBackups

\* TravelTimeService(): the key is read from the environment
Init ==
    /\ api_key \in ApiKeys
    /\ now = StartOfService
    /\ pc = "idle"
    /\ args = NoArgs
    /\ InitLocals
    /\ requests = << >>
    /\ response = NoResponse
    /\ raised = None
    /\ result = None
    /\ InitStore

(* --------------------- calculate_travel_times ------------------------- *)

\* Python's truth value of an optional string
Truthy(a) == a # None /\ a # Some("")

\* InvalidInput without "or not destination"
InvalidInput_OriginOnly(origin, destination) == ~Truthy(origin)

\* line 27: not origin or not destination
InvalidInput(origin, destination) == ~Truthy(origin) \/ ~Truthy(destination)

\* UseFallback without the check of the key: the routing path is always taken
UseFallback_Never(key) == FALSE

\* line 30: not self.api_key
UseFallback(key) == ~Truthy(key)

RoutingRequest(origin, destination, departure_time) ==
    [service |-> "distancematrix", addresses |-> << origin, destination >>,
     departure_time |-> Some(departure_time)]

GeocodingRequest(address) ==
    [service |-> "nominatim", addresses |-> << address >>,
     departure_time |-> None]

\* lines 27-34: the call starts
Call(origin, destination, use_tuesday, day_offset) ==
    /\ pc = "idle"
    /\ args' = [origin |-> origin, destination |-> destination,
                use_tuesday |-> use_tuesday, day_offset |-> day_offset]
    /\ IF InvalidInput(origin, destination)
       THEN /\ pc' = "raised"
            /\ raised' = Some("ValueError")
       ELSE /\ pc' = IF UseFallback(api_key) THEN "geocode_origin" ELSE "depart"
            /\ raised' = None
    /\ UNCHANGED << api_key, now, locals, requests, response, result >>

\* lines 35-41: one entry of time_slots, the clock read by
\* _get_departure_time
GetDepartureTime ==
    /\ pc = "depart"
    /\ time_slots' =
         Put(time_slots, SlotKeys[slot],
             _get_departure_time(now, SlotTime[slot][1], SlotTime[slot][2],
                                 args.day_offset, args.use_tuesday))
    /\ IF slot = NumSlots
       THEN pc' = "fetch" /\ slot' = 1
       ELSE pc' = "depart" /\ slot' = slot + 1
    /\ UNCHANGED << api_key, now, args, travel_times, all_times,
                    anomaly_detected, origin_coords, requests, response,
                    travel_time_data, raised, result >>

\* SlotResult without line 62: a failed slot is left out of travel_times
SlotResult_SkipsFailedSlot(tt, time_key, outcome) ==
    IF outcome.exception # None
    THEN tt
    ELSE Put(Put(tt, time_key, Some(The(outcome.value).conservative)),
             DisplayKey(time_key), The(outcome.value).display)

\* SlotResult without line 55: the display string is not stored
SlotResult_NoDisplay(tt, time_key, outcome) ==
    IF outcome.exception # None
    THEN Put(tt, time_key, None)
    ELSE Put(tt, time_key, Some(The(outcome.value).conservative))

\* lines 49-63: the body of the loop for time_key, _get_travel_time having
\* given outcome.  The else branch of lines 58-59 is never taken:
\* _get_travel_time returns a dict of five entries or raises.
SlotResult(tt, time_key, outcome) ==
    IF outcome.exception # None
    THEN Put(tt, time_key, None)
    ELSE Put(Put(tt, time_key, Some(The(outcome.value).conservative)),
             DisplayKey(time_key), The(outcome.value).display)

\* Catches for a handler that names the errors of the requests library only
Catches_RequestErrorsOnly(exception) ==
    exception \in { "ConnectionError", "HTTPError", "JSONDecodeError" }

\* line 60: except Exception catches whatever _get_travel_time raises
Catches(exception) == TRUE

\* LoopEnds for a loop that stops after the third slot
LoopEnds_AfterThree(slot_) == slot_ >= 3

\* line 48: the for loop over time_slots.items() has handled its last item
LoopEnds(slot_) == slot_ = NumSlots

\* lines 48-63: one turn of the loop, r the answer of the routing service
GetTravelTime(r) ==
    /\ pc = "fetch"
    /\ LET time_key == SlotKeys[slot]
       IN  /\ requests' = Append(requests,
                 RoutingRequest(The(args.origin), The(args.destination),
                                time_slots[time_key]))
           /\ response' = r
           /\ \E outcome \in _get_travel_time(r) :
                IF outcome.exception # None /\ ~Catches(The(outcome.exception))
                THEN /\ pc' = "raised"
                     /\ raised' = outcome.exception
                     /\ UNCHANGED << slot, travel_time_data, travel_times,
                                     all_times, anomaly_detected >>
                ELSE /\ travel_time_data' = outcome.value
                     /\ travel_times' =
                          SlotResult(travel_times, time_key, outcome)
                     /\ all_times' =
                          IF outcome.exception = None
                          THEN Append(all_times,
                                      The(outcome.value).conservative)
                          ELSE all_times
                     /\ anomaly_detected' =
                          (anomaly_detected \/ outcome.exception # None)
                     /\ raised' = raised
                     /\ IF LoopEnds(slot)
                        THEN pc' = "detect" /\ slot' = slot
                        ELSE pc' = "fetch" /\ slot' = slot + 1
    /\ UNCHANGED << api_key, now, args, time_slots, origin_coords, result >>

\* Median that takes the element before the one at len(all_times) // 2
Median_ElementBefore(times) ==
    SortSeq(times, LAMBDA a, b : a < b)[Len(times) \div 2]

\* line 67: sorted(all_times)[len(all_times) // 2]
Median(times) == SortSeq(times, LAMBDA a, b : a < b)[Len(times) \div 2 + 1]

AnomalyNote == "Unusually high traffic detected - possibly an incident"

\* DetectionRuns without "and not anomaly_detected"
DetectionRuns_IgnoresErrors(times, errored) == Len(times) >= 3

\* line 66: the anomaly pass runs
DetectionRuns(times, errored) == Len(times) >= 3 /\ ~errored

\* Outlier with >= for >
Outlier_NotStrict(value, median_time) == value >= 2 * median_time

\* line 72: the value of a slot is an outlier
Outlier(value, median_time) == value > 2 * median_time

\* FirstAttempt without "and day_offset == 0"
FirstAttempt_IgnoresOffset(use_tuesday, day_offset) == ~use_tuesday

\* line 77: the note is attached
FirstAttempt(use_tuesday, day_offset) == ~use_tuesday /\ day_offset = 0

\* lines 71-78: the check of one morning slot
CheckSlot(tt, time_key, median_time, use_tuesday, day_offset) ==
    IF /\ time_key \in DOMAIN tt
       /\ tt[time_key] # None
       /\ Outlier(The(tt[time_key]), median_time)
    THEN LET flagged == Put(tt, AnomalyKey(time_key), TRUE)
         IN  IF FirstAttempt(use_tuesday, day_offset)
             THEN Put(flagged, NoteKey(time_key), AnomalyNote)
             ELSE flagged
    ELSE tt

\* line 70: the slots that are checked
CheckedSlots == << "travel_time_830am", "travel_time_930am" >>

\* lines 65-78
DetectAnomalies(tt, times, errored, use_tuesday, day_offset) ==
    IF DetectionRuns(times, errored)
    THEN LET median_time == Median(times)
             first == CheckSlot(tt, CheckedSlots[1], median_time,
                                use_tuesday, day_offset)
         IN  CheckSlot(first, CheckedSlots[2], median_time,
                       use_tuesday, day_offset)
    ELSE tt

\* lines 81-87
DayName(use_tuesday, day_offset) ==
    LET day_name == IF use_tuesday THEN "Tuesday" ELSE "Monday"
    IN  IF day_offset < 0
        THEN "past " \o day_name \o " (" \o ToString(Abs(day_offset))
               \o " days ago)"
        ELSE IF day_offset > 0
        THEN "future " \o day_name \o " (" \o ToString(day_offset)
               \o " days ahead)"
        ELSE "next " \o day_name

\* AddMetadata without line 90: the timestamp is left out
AddMetadata_NoTimestamp(tt, use_tuesday, day_offset, now_) ==
    Put(tt, "calculation_day", DayName(use_tuesday, day_offset))

\* lines 80-90
AddMetadata(tt, use_tuesday, day_offset, now_) ==
    Put(Put(tt, "calculation_day", DayName(use_tuesday, day_offset)),
        "calculation_timestamp", Timestamp(now_))

\* lines 65-92: the anomaly pass, the metadata, the return
Detect ==
    /\ pc = "detect"
    /\ travel_times' =
         AddMetadata(DetectAnomalies(travel_times, all_times, anomaly_detected,
                                     args.use_tuesday, args.day_offset),
                     args.use_tuesday, args.day_offset, now)
    /\ result' = Some(travel_times')
    /\ pc' = "returned"
    /\ UNCHANGED << api_key, now, args, slot, time_slots, all_times,
                    anomaly_detected, origin_coords, requests, response,
                    travel_time_data, raised >>

\* line 220: the origin is geocoded, r the answer of the geocoding service
GeocodeOrigin(r) ==
    /\ pc = "geocode_origin"
    /\ requests' = Append(requests, GeocodingRequest(The(args.origin)))
    /\ response' = r
    /\ origin_coords' = _geocode_address(r)
    /\ pc' = "geocode_destination"
    /\ UNCHANGED << api_key, now, args, slot, time_slots, travel_times,
                    all_times, anomaly_detected, travel_time_data, raised,
                    result >>

\* lines 221-234 and 182-202: the destination is geocoded, r the answer of
\* the geocoding service, and _fallback_calculation returns
GeocodeDestination(r) ==
    /\ pc = "geocode_destination"
    /\ requests' = Append(requests, GeocodingRequest(The(args.destination)))
    /\ response' = r
    /\ \E base_time \in
            _estimate_base_travel_time(origin_coords, _geocode_address(r)) :
         \E d \in _fallback_calculation(base_time) :
            result' = Some(d)
    /\ pc' = "returned"
    /\ UNCHANGED << api_key, now, args, locals, raised >>

\* the caller has the outcome of the call; the locals are gone
Complete ==
    /\ pc \in { "returned", "raised" }
    /\ pc' = "idle"
    /\ args' = NoArgs
    /\ slot' = 1
    /\ time_slots' = EmptyDict
    /\ travel_times' = EmptyDict
    /\ all_times' = << >>
    /\ anomaly_detected' = FALSE
    /\ origin_coords' = None
    /\ travel_time_data' = None
    /\ requests' = << >>
    /\ response' = NoResponse
    /\ raised' = None
    /\ result' = None
    /\ UNCHANGED << api_key, now >>

\* the clock advances to a later sample moment
Tick ==
    /\ \E m \in Moments : Before(now, m) /\ now' = m
    /\ UNCHANGED << api_key, pc, args, locals, requests, response, raised,
                    result >>

\* the service called on its own: the property API is not involved
Next ==
    \/ \E origin \in Origins, destination \in Destinations,
          use_tuesday \in BOOLEAN, day_offset \in DayOffsets :
          Call(origin, destination, use_tuesday, day_offset)
            /\ UNCHANGED store
    \/ GetDepartureTime /\ UNCHANGED store
    \/ \E r \in RoutingResponses : GetTravelTime(r) /\ UNCHANGED store
    \/ Detect /\ UNCHANGED store
    \/ \E r \in GeocodingResponses : GeocodeOrigin(r) /\ UNCHANGED store
    \/ \E r \in GeocodingResponses : GeocodeDestination(r) /\ UNCHANGED store
    \/ Complete /\ UNCHANGED store

Spec == Init /\ [][Next]_vars

(* ---------------- the clock while time_slots is computed --------------- *)

\* The call up to the end of lines 35-41, the clock advancing between its
\* readings.
NextClock ==
    \/ \E origin \in Origins, destination \in Destinations,
          use_tuesday \in BOOLEAN, day_offset \in DayOffsets :
          Call(origin, destination, use_tuesday, day_offset)
            /\ UNCHANGED store
    \/ GetDepartureTime /\ UNCHANGED store
    \/ Tick /\ UNCHANGED store

SpecClock == Init /\ [][NextClock]_vars

(* ----------------------- _get_travel_time alone ------------------------ *)

\* the answers with a route, whatever the duration: traffic-aware duration
\* and plain duration present or not
WideResponses ==
    { OkResponse(t, n) : t \in OptDurations(0..MaxSeconds),
                         n \in OptDurations({45, MaxSeconds}) }
        \cup FailingResponses

InitTravelTime ==
    /\ api_key = Some("API-KEY")
    /\ now = StartOfService
    /\ pc = "alone"
    /\ args = NoArgs
    /\ InitLocals
    /\ requests = << >>
    /\ response \in WideResponses
    /\ raised = None
    /\ result = None
    /\ InitStore

\* _get_travel_time is applied to the answer at hand
ApplyGetTravelTime ==
    /\ pc = "alone"
    /\ \E outcome \in _get_travel_time(response) :
         /\ travel_time_data' = outcome.value
         /\ raised' = outcome.exception
    /\ pc' = "applied"
    /\ UNCHANGED << api_key, now, args, slot, time_slots, travel_times,
                    all_times, anomaly_detected, origin_coords, requests,
                    response, result >>

NextTravelTime == ApplyGetTravelTime /\ UNCHANGED store

SpecTravelTime == InitTravelTime /\ [][NextTravelTime]_vars

(* --------------------------- the property API -------------------------- *)

\* The requests are served one at a time.  A handler that calls the
\* travel-time service is two steps, the call in between; the others are
\* one step each.

\* the names bound in the namespace of app/routers/property.py (lines 1-12
\* and the handlers)
ModuleNames ==
    { "os", "shutil", "APIRouter", "Depends", "HTTPException", "UploadFile",
      "File", "Form", "Body", "Session", "List", "Optional", "get_db",
      "Property", "PropertyImage", "Settings", "PropertyCreate",
      "PropertySchema", "TravelTimeService", "router", "create_property",
      "read_properties", "read_property", "update_property",
      "update_property_partial", "calculate_travel_times",
      "delete_property" }

\* the name can be looked up; otherwise its use raises NameError
Defined(name) == name \in ModuleNames

\* the form fields of create_property and update_property
FormFields ==
    { "address", "property_type", "price_per_month", "square_footage",
      "cat_friendly", "air_conditioning", "on_premises_parking",
      "description", "contacts" }

\* the columns of table properties
Columns == {"id"} \cup FormFields \cup SlotKeySet

\* two submitted forms; the second has the empty string for its address
Forms ==
    { [address |-> "9 Rental Ave", property_type |-> "Home",
       price_per_month |-> 1500, square_footage |-> 1000,
       cat_friendly |-> TRUE, air_conditioning |-> TRUE,
       on_premises_parking |-> FALSE, description |-> None,
       contacts |-> None],
      [address |-> "", property_type |-> "Apartment",
       price_per_month |-> 1200, square_footage |-> 800,
       cat_friendly |-> FALSE, air_conditioning |-> TRUE,
       on_premises_parking |-> TRUE, description |-> Some("Top floor"),
       contacts |-> Some("Ann 555-0100")] }

\* an uploaded file: its name and filename.split('.')[-1]
Uploads == { None, Some([filename |-> "photo.jpg", extension |-> "jpg"]) }

\* the values of keep_main_image
KeepMainImage == { None, Some("true") }

\* the bodies of PATCH requests: the fields that are not None are stored
Patches ==
    { [travel_time_830am |-> Some(Minutes(20)), travel_time_930am |-> None,
       travel_time_midday |-> None, travel_time_630pm |-> None,
       travel_time_730pm |-> None, contacts |-> None],
      [travel_time_830am |-> None, travel_time_930am |-> None,
       travel_time_midday |-> None, travel_time_630pm |-> None,
       travel_time_730pm |-> None, contacts |-> Some("Bob 555-0199")] }

\* the origin addresses that update_settings is given
OriginAddresses == { "", "1 Home Rd" }

\* the contents of the notes that add_note is given
NoteContents == { "Call the landlord" }

\* the property ids that requests name
PropertyIds == 1..MaxPropertyId

\* NewId that counts the rows: an id in use is handed out after a delete
NewId_CountPlusOne(ids) == Cardinality(ids) + 1

\* the id that the database gives to a new row of a table whose rows have
\* the ids given: one more than the largest (an INTEGER PRIMARY KEY of
\* SQLite, the engine of the tests and of data/rentals.db)
NewId(ids) ==
    IF ids = {} THEN 1 ELSE (CHOOSE i \in ids : \A j \in ids : j <= i) + 1

\* Property(**property_data) with the id that the database gives it
NewProperty(id, form) ==
    [k \in Columns |->
       IF k = "id" THEN id ELSE IF k \in FormFields THEN form[k] ELSE None]

\* a file of the image directory
File(dir, name) == [dir |-> dir, name |-> name]

\* f"app/static/images/property_{id}"
PropertyImageDir(id) == "app/static/images/property_" \o ToString(id)

\* f"{uuid.uuid4()}.{file_extension}" for the n-th uuid drawn
UniqueFilename(n, upload) == "uuid-" \o ToString(n) \o "." \o upload.extension

PropertyImage(id, filename, is_main, property_id) ==
    [id |-> id, filename |-> filename, is_main |-> is_main,
     property_id |-> property_id]

PropertyNote(id, property_id, content, created_at) ==
    [id |-> id, property_id |-> property_id, content |-> content,
     created_at |-> created_at]

\* the ids of a set of rows
Ids(rows) == { row.id : row \in rows }

\* db_property.images and db_property.notes
ImagesOf(images, id) == { image \in images : image.property_id = Some(id) }

NotesOf(notes, id) == { note \in notes : note.property_id = id }

\* the response model PropertySchema of a row
PropertySchema(db_property, images, notes) ==
    Put(Put(db_property, "images", ImagesOf(images, db_property["id"])),
        "notes", NotesOf(notes, db_property["id"]))

NotFound == HttpResponse(404, Some([detail |-> "Property not found"]))

\* dict.get(key, default)
Get(d, key, default) == IF key \in DOMAIN d THEN d[key] ELSE default

(* settings.py, lines 36-47 *)
update_settings(origin_address) ==
    /\ pc = "idle" /\ served < MaxRequests
    /\ served' = served + 1
    /\ request' = Request("update_settings", None, None)
    /\ settings' = Some(origin_address)
    /\ http_response' =
         HttpResponse(200, Some([origin_address |-> origin_address]))
    /\ UNCHANGED << service, properties, property_images, property_notes,
                    files, uuids >>

\* lines 46-69: the main image of a new property is stored
SaveMainImage(id, main_image) ==
    IF main_image # None /\ The(main_image).filename # ""
    THEN LET unique_filename == UniqueFilename(uuids + 1, The(main_image))
         IN  /\ uuids' = uuids + 1
             /\ files' =
                  files \cup {File(PropertyImageDir(id), unique_filename)}
             /\ property_images' =
                  property_images \cup
                    { PropertyImage(NewId(Ids(property_images)),
                                    unique_filename, TRUE, Some(id)) }
    ELSE UNCHANGED << uuids, files, property_images >>

\* create_property, lines 28-79: the row and the main image are stored; with
\* an origin address in the settings the travel-time service is called
create_property(form, main_image) ==
    /\ pc = "idle" /\ served < MaxRequests
    /\ served' = served + 1
    /\ LET id == NewId(DOMAIN properties)
           db_property == NewProperty(id, form)
       IN  /\ request' = Request("create_property", Some(id), Some(form))
           /\ properties' = Put(properties, id, db_property)
           /\ SaveMainImage(id, main_image)
           /\ IF Truthy(settings)
              THEN /\ Call(settings, Some(form["address"]), FALSE, 0)
                   /\ http_response' = NoHttpResponse
              ELSE /\ http_response' =
                        HttpResponse(200,
                          Some(PropertySchema(db_property, property_images',
                                              property_notes)))
                   /\ UNCHANGED service
    /\ UNCHANGED << settings, property_notes >>

\* lines 82-84: setattr for the values that are not None; only a column is
\* stored, the other attributes are gone with the response
SetTravelTimes(db_property, travel_times_) ==
    [k \in DOMAIN db_property |->
       IF k \in SlotKeySet /\ k \in DOMAIN travel_times_
            /\ travel_times_[k] # None
       THEN travel_times_[k]
       ELSE db_property[k]]

\* the answer of line 325, and of the framework to an exception that
\* leaves a handler
ServerError(e) == HttpResponse(500, Some([detail |-> e]))

\* CreateCatches for a create_property without the handler of line 88
CreateCatches_Nothing(exception) == FALSE

\* line 88: except Exception catches whatever the calculation raises
CreateCatches(exception) == TRUE

\* create_property, lines 80-92: the service has returned or raised
create_property_return ==
    /\ request.handler = "create_property"
    /\ pc \in { "returned", "raised" }
    /\ LET id == The(request.property_id)
           db_property ==
             IF pc = "returned"
             THEN SetTravelTimes(properties[id], The(result))
             ELSE properties[id]
       IN  /\ properties' = Put(properties, id, db_property)
           /\ http_response' =
                IF pc = "raised" /\ ~CreateCatches(The(raised))
                THEN ServerError(The(raised))
                ELSE HttpResponse(200,
                       Some(PropertySchema(db_property, property_images,
                                           property_notes)))
    /\ Complete
    /\ UNCHANGED << settings, property_images, property_notes, files, uuids,
                    request, served >>

\* lines 102-108
read_property(property_id) ==
    /\ pc = "idle" /\ served < MaxRequests
    /\ served' = served + 1
    /\ request' = Request("read_property", Some(property_id), None)
    /\ http_response' =
         IF property_id \notin DOMAIN properties
         THEN NotFound
         ELSE HttpResponse(200,
                Some(PropertySchema(properties[property_id],
                                    property_images, property_notes)))
    /\ UNCHANGED << service, database >>

\* line 96: skip: int = 0
DefaultSkip == 0

\* line 96: limit: int = 100
DefaultLimit == 100

\* the values of skip and of limit that read_properties is given
Skips == { DefaultSkip, 1 }

Limits == { DefaultLimit, 1 }

\* the ids in the order of a scan of the table: ascending
Scan(ids) ==
    IF ids = {} THEN << >>
    ELSE LET last == CHOOSE id \in ids : \A other \in ids : other <= id
             Stored_(id) == id \in ids
         IN  SelectSeq([id \in 1..last |-> id], Stored_)

\* the rows of the ids, as response models
Rows(ids) ==
    [i \in 1..Len(ids) |->
       PropertySchema(properties[ids[i]], property_images, property_notes)]

\* Page that leaves out LIMIT
Page_NoLimit(rows, skip, limit) == SubSeq(rows, skip + 1, Len(rows))

\* line 98: .offset(skip).limit(limit).all(), for skip >= 0 and limit >= 0
Page(rows, skip, limit) ==
    SubSeq(rows, skip + 1,
           IF Len(rows) <= skip + limit THEN Len(rows) ELSE skip + limit)

\* lines 95-99
read_properties(skip, limit) ==
    /\ pc = "idle" /\ served < MaxRequests
    /\ served' = served + 1
    /\ request' = Request("read_properties", None,
                          Some([skip |-> skip, limit |-> limit]))
    /\ http_response' =
         HttpResponse(200,
           Some(Page(Rows(Scan(DOMAIN properties)), skip, limit)))
    /\ UNCHANGED << service, database >>

\* the main images of a property: .first() takes one of them
MainImages(property_id) ==
    { image \in property_images :
        image.property_id = Some(property_id) /\ image.is_main }

\* lines 150-155 and 184-189: the file at app/static/images/<filename> is
\* removed when there is one, and the row is deleted
RemoveMain(images, files_, existing_main) ==
    [images |-> images \ {existing_main},
     files |-> files_ \ {File("app/static/images", existing_main.filename)}]

\* UpdatedProperty that leaves the stored contacts as they are
UpdatedProperty_KeepsContacts(db_property, form) ==
    [k \in Columns |->
       IF k \in FormFields \ {"contacts"} THEN form[k] ELSE db_property[k]]

\* lines 132-141: the nine submitted values are assigned to the row
UpdatedProperty(db_property, form) ==
    [k \in Columns |-> IF k \in FormFields THEN form[k] ELSE db_property[k]]

\* lines 111-193
update_property(property_id, form, main_image, keep_main_image) ==
    /\ pc = "idle" /\ served < MaxRequests
    /\ served' = served + 1
    /\ request' = Request("update_property", Some(property_id), Some(form))
    /\ IF property_id \notin DOMAIN properties
       THEN /\ http_response' = NotFound
            /\ UNCHANGED database
       ELSE
         LET db_property == UpdatedProperty(properties[property_id], form)
             has_upload ==
               main_image # None /\ The(main_image).filename # ""
             removes == has_upload \/ keep_main_image # Some("true")
         IN  /\ properties' = Put(properties, property_id, db_property)
             /\ \E existing \in
                    IF removes /\ MainImages(property_id) # {}
                    THEN { Some(image) : image \in MainImages(property_id) }
                    ELSE { None } :
                  LET kept == IF existing = None
                              THEN [images |-> property_images,
                                    files |-> files]
                              ELSE RemoveMain(property_images, files,
                                              The(existing))
                      unique_filename ==
                        UniqueFilename(uuids + 1, The(main_image))
                  IN  IF has_upload
                      THEN /\ uuids' = uuids + 1
                           /\ files' =
                                kept.files \cup
                                  { File(PropertyImageDir(property_id),
                                         unique_filename) }
                           /\ property_images' =
                                kept.images \cup
                                  { PropertyImage(
                                      NewId(Ids(property_images)),
                                      unique_filename, TRUE,
                                      Some(property_id)) }
                      ELSE /\ uuids' = uuids
                           /\ files' = kept.files
                           /\ property_images' = kept.images
             /\ http_response' =
                  HttpResponse(200,
                    Some(PropertySchema(db_property, property_images',
                                        property_notes)))
             /\ UNCHANGED << settings, property_notes >>
    /\ UNCHANGED service

\* lines 196-231
update_property_partial(property_id, patch) ==
    /\ pc = "idle" /\ served < MaxRequests
    /\ served' = served + 1
    /\ request' = Request("update_property_partial", Some(property_id), None)
    /\ IF property_id \notin DOMAIN properties
       THEN /\ http_response' = NotFound
            /\ UNCHANGED properties
       ELSE
         LET db_property ==
               [k \in Columns |->
                  IF k \in DOMAIN patch /\ patch[k] # None
                  THEN (IF k \in SlotKeySet THEN patch[k] ELSE patch[k])
                  ELSE properties[property_id][k]]
         IN  /\ properties' = Put(properties, property_id, db_property)
             /\ http_response' = HttpResponse(200, Some(db_property))
    /\ UNCHANGED << service, settings, property_images, property_notes,
                    files, uuids >>

\* lines 235-267: the property and the origin are looked up and the
\* travel-time service is called
calculate_travel_times(property_id, use_tuesday, day_offset) ==
    /\ pc = "idle" /\ served < MaxRequests
    /\ served' = served + 1
    /\ request' = Request("calculate_travel_times", Some(property_id), None)
    /\ IF property_id \notin DOMAIN properties
       THEN /\ http_response' = NotFound
            /\ UNCHANGED service
       ELSE IF ~Truthy(settings)
       THEN /\ http_response' =
                 HttpResponse(400,
                   Some([detail |-> "Global origin address not set"]))
            /\ UNCHANGED service
       ELSE /\ Call(settings, Some(properties[property_id]["address"]),
                    use_tuesday, day_offset)
            /\ http_response' = NoHttpResponse
    /\ UNCHANGED database

\* line 279: the keys that end with _anomaly and hold a true value, in the
\* order of the dict
Anomalies(travel_times_) ==
    SelectSeq(CheckedSlots,
              LAMBDA key : /\ AnomalyKey(key) \in DOMAIN travel_times_
                           /\ travel_times_[AnomalyKey(key)] = TRUE)

\* lines 281-284
NoteContent(travel_times_) ==
    LET head == "Travel time anomalies detected on "
                  \o Get(travel_times_, "calculation_day", "calculation day")
                  \o ". "
        part(key) == key \o ": "
                       \o Get(travel_times_, NoteKey(key),
                              "Unusual traffic pattern")
                       \o ". "
        keys == Anomalies(travel_times_)
    IN  IF Len(keys) = 1 THEN head \o part(keys[1])
        ELSE head \o part(keys[1]) \o part(keys[2])

\* calculate_travel_times with the loop of create_property: only the
\* values that are not None are stored
PropertyData_SkipsAbsent(db_property, travel_times_) ==
    [k \in DOMAIN db_property |->
       IF k \in SlotKeySet /\ Get(travel_times_, k, None) # None
       THEN travel_times_[k]
       ELSE db_property[k]]

\* lines 270-276 and 296-297: the five fields are set from the result, an
\* absent estimate to None
PropertyData(db_property, travel_times_) ==
    [k \in DOMAIN db_property |->
       IF k \in SlotKeySet THEN Get(travel_times_, k, None)
       ELSE db_property[k]]

\* the keys of lines 309-321 that the result has
ResponseKeys(travel_times_) ==
    { k \in DOMAIN travel_times_ :
        \E key \in SlotKeySet :
           k \in { DisplayKey(key), AnomalyKey(key), NoteKey(key) } }

\* lines 301-323: the response dictionary
CalculationResponse(db_property, travel_times_) ==
    [k \in DOMAIN db_property \cup ResponseKeys(travel_times_)
             \cup { "calculation_day", "calculation_timestamp" } |->
       IF k = "calculation_day"
       THEN Get(travel_times_, "calculation_day", "next Monday")
       ELSE IF k = "calculation_timestamp"
       THEN (IF k \in DOMAIN travel_times_
             THEN Some(travel_times_[k]) ELSE None)
       ELSE IF k \in ResponseKeys(travel_times_) THEN travel_times_[k]
       ELSE db_property[k]]

\* lines 268-325: the service has returned or raised
calculate_travel_times_return ==
    /\ request.handler = "calculate_travel_times"
    /\ pc \in { "returned", "raised" }
    /\ LET property_id == The(request.property_id)
           travel_times_ == The(result)
           db_property == PropertyData(properties[property_id], travel_times_)
       IN  IF pc = "raised"
           THEN /\ http_response' = ServerError(The(raised))
                /\ UNCHANGED << properties, property_notes >>
           ELSE IF Len(Anomalies(travel_times_)) > 0
                     /\ ~(Defined("PropertyNote") /\ Defined("datetime"))
           THEN /\ http_response' = ServerError("NameError")
                /\ UNCHANGED << properties, property_notes >>
           ELSE /\ property_notes' =
                     IF Len(Anomalies(travel_times_)) > 0
                     THEN property_notes \cup
                            { PropertyNote(NewId(Ids(property_notes)),
                                           property_id,
                                           NoteContent(travel_times_),
                                           Timestamp(now)) }
                     ELSE property_notes
                /\ properties' = Put(properties, property_id, db_property)
                /\ http_response' =
                     HttpResponse(200,
                       Some(CalculationResponse(db_property, travel_times_)))
    /\ Complete
    /\ UNCHANGED << settings, property_images, files, uuids, request,
                    served >>

\* DeleteRow that leaves the row in the table
DeleteRow_KeepsRow(rows, property_id) == rows

\* line 340: db.delete(db_property)
DeleteRow(rows, property_id) ==
    [id \in DOMAIN rows \ {property_id} |-> rows[id]]

\* lines 328-342: the image directory is removed with its files; the notes
\* go with the property (cascade) and the image rows lose their property
delete_property(property_id) ==
    /\ pc = "idle" /\ served < MaxRequests
    /\ served' = served + 1
    /\ request' = Request("delete_property", Some(property_id), None)
    /\ IF property_id \notin DOMAIN properties
       THEN /\ http_response' = NotFound
            /\ UNCHANGED database
       ELSE /\ files' =
                 { f \in files : f.dir # PropertyImageDir(property_id) }
            /\ properties' = DeleteRow(properties, property_id)
            /\ property_notes' =
                 { note \in property_notes : note.property_id # property_id }
            /\ property_images' =
                 { IF image.property_id = Some(property_id)
                   THEN [image EXCEPT !.property_id = None]
                   ELSE image : image \in property_images }
            /\ http_response' =
                 HttpResponse(200, Some([detail |-> "Property deleted"]))
            /\ UNCHANGED << settings, uuids >>
    /\ UNCHANGED service

(* notes.py, lines 10-27 *)
add_note(property_id, content) ==
    /\ pc = "idle" /\ served < MaxRequests
    /\ served' = served + 1
    /\ request' = Request("add_note", Some(property_id), None)
    /\ IF property_id \notin DOMAIN properties
       THEN /\ http_response' = NotFound
            /\ UNCHANGED property_notes
       ELSE LET db_note == PropertyNote(NewId(Ids(property_notes)),
                                        property_id, content, Timestamp(now))
            IN  /\ property_notes' = property_notes \cup {db_note}
                /\ http_response' = HttpResponse(200, Some(db_note))
    /\ UNCHANGED << service, settings, properties, property_images, files,
                    uuids >>

\* the answers of the routing service to the request of a slot, while the
\* API is served: the first request gives 10 or 30 minutes, the last is
\* refused or gives 10 minutes, the others give 10 minutes
StoreRoutingResponses(slot_) ==
    { OkResponse(Some(600), Some(600)) }
      \cup (IF slot_ = 1
            THEN { OkResponse(Some(1800), Some(600)) } ELSE {})
      \cup (IF slot_ = NumSlots
            THEN { Response("HTTP 200", Some(Body("REQUEST_DENIED", << >>))) }
            ELSE {})

\* the answers of the geocoding service while the API is served: the origin
\* is not found or is found, the destination is found at the origin or 40 km
\* away
StoreGeocodingResponses(address) ==
    IF address = "origin"
    THEN { Response("HTTP 500", None),
           Response("HTTP 200", Some(<< Coords(0, 0) >>)) }
    ELSE { Response("HTTP 200", Some(<< Coords(0, 0) >>)),
           Response("HTTP 200", Some(<< Coords(4000, 0) >>)) }

NextStore ==
    \/ \E origin_address \in OriginAddresses : update_settings(origin_address)
            /\ UNCHANGED backup_service
    \/ \E form \in Forms, main_image \in Uploads :
          create_property(form, main_image)
            /\ UNCHANGED backup_service
    \/ create_property_return
            /\ UNCHANGED backup_service
    \/ \E property_id \in PropertyIds : read_property(property_id)
            /\ UNCHANGED backup_service
    \/ \E property_id \in PropertyIds, form \in Forms, main_image \in Uploads,
          keep_main_image \in KeepMainImage :
          update_property(property_id, form, main_image, keep_main_image)
            /\ UNCHANGED backup_service
    \/ \E property_id \in PropertyIds, patch \in Patches :
          update_property_partial(property_id, patch)
            /\ UNCHANGED backup_service
    \/ \E property_id \in PropertyIds :
          calculate_travel_times(property_id, FALSE, 0)
            /\ UNCHANGED backup_service
    \/ calculate_travel_times_return
            /\ UNCHANGED backup_service
    \/ \E property_id \in PropertyIds : delete_property(property_id)
            /\ UNCHANGED backup_service
    \/ \E property_id \in PropertyIds, content \in NoteContents :
          add_note(property_id, content)
            /\ UNCHANGED backup_service
    \/ GetDepartureTime /\ UNCHANGED store
    \/ \E r \in StoreRoutingResponses(slot) :
          GetTravelTime(r) /\ UNCHANGED store
    \/ Detect /\ UNCHANGED store
    \/ \E r \in StoreGeocodingResponses("origin") :
          GeocodeOrigin(r) /\ UNCHANGED store
    \/ \E r \in StoreGeocodingResponses("destination") :
          GeocodeDestination(r) /\ UNCHANGED store

SpecStore == Init /\ [][NextStore]_vars

(* ------------------- the listing of the properties -------------------- *)

\* the numbers of properties that were created before the listing is read:
\* none, or about as many as the default page holds
StoredCounts == { 0 } \cup (MaxStored - 2)..MaxStored

\* the API starts to be served on a table of properties that were created
\* earlier, none of them deleted; no origin address is set
InitReadProperties ==
    /\ api_key \in ApiKeys
    /\ now = StartOfService
    /\ pc = "idle"
    /\ args = NoArgs
    /\ InitLocals
    /\ requests = << >>
    /\ response = NoResponse
    /\ raised = None
    /\ result = None
    /\ settings = None
    /\ \E n \in StoredCounts, form \in Forms :
          properties = [id \in 1..n |-> NewProperty(id, form)]
    /\ property_images = {}
    /\ property_notes = {}
    /\ files = {}
    /\ uuids = 0
    /\ request = NoRequest
    /\ http_response = NoHttpResponse
    /\ served = 0
    /\ InitBackups

NextReadProperties ==
    \/ \E form \in Forms : create_property(form, None)
            /\ UNCHANGED backup_service
    \/ \E property_id \in PropertyIds : delete_property(property_id)
            /\ UNCHANGED backup_service
    \/ \E skip \in Skips, limit \in Limits : read_properties(skip, limit)
            /\ UNCHANGED backup_service

SpecReadProperties == InitReadProperties /\ [][NextReadProperties]_vars

(* ------------------------- image.py: the images ----------------------- *)

\* the largest image id that a request names
MaxImageId == 2

ImageIds == 1..MaxImageId

\* the files that upload_image is given: the name, its stem (Path.stem) and
\* whether PIL can open the content
ImageUploads ==
    { [filename |-> "photo.jpg", stem |-> "photo", readable |-> TRUE],
      [filename |-> "notes.jpg", stem |-> "notes", readable |-> FALSE] }

\* the JSON bodies that paste_image is given: no image_data, image_data that
\* cannot be decoded, image_data of an image
PastedData ==
    { [k \in {} |-> TRUE],
      [image_data |-> FALSE],
      [image_data |-> TRUE] }

\* image_processor.py, line 150: the stem and the extension of the target
\* format JPEG
NewFilename(file) == file.stem \o ".jpeg"

\* image.py, line 215: f"pasted_{uuid.uuid4().hex}.jpg" for the n-th uuid
PastedFilename(n) == "pasted_" \o ToString(n) \o ".jpg"

\* Demoted that leaves the existing main image as it is
Demoted_Never(images, existing_main) == images

\* lines 65-67: existing_main.is_main = False
Demoted(images, existing_main) ==
    (images \ {existing_main})
      \cup { [existing_main EXCEPT !.is_main = FALSE] }

\* the answer of lines 163-168 and 241-246
ImageResponse(db_image, message) ==
    HttpResponse(201,
      Some([id |-> db_image.id, filename |-> db_image.filename,
            is_main |-> db_image.is_main, message |-> message]))

\* lines 134-174, with process_and_save_image (lines 34-94) and
\* _process_uploaded_image (lines 97-131): a file that cannot be processed
\* leaves nothing behind; otherwise the file is written, an existing main
\* image is demoted for a new main image and the row is added
upload_image(property_id, is_main, file) ==
    /\ pc = "idle" /\ served < MaxRequests
    /\ served' = served + 1
    /\ request' = Request("upload_image", Some(property_id), None)
    /\ IF property_id \notin DOMAIN properties
       THEN /\ http_response' = NotFound
            /\ UNCHANGED database
       ELSE IF ~file.readable
       THEN /\ http_response' =
                 HttpResponse(400, Some([detail |-> "Error processing image"]))
            /\ UNCHANGED database
       ELSE
         LET new_filename == NewFilename(file)
             db_image == PropertyImage(NewId(Ids(property_images)),
                                       new_filename, is_main,
                                       Some(property_id))
         IN  /\ files' =
                  files \cup { File(PropertyImageDir(property_id),
                                    new_filename) }
             /\ \E existing \in
                    IF is_main /\ MainImages(property_id) # {}
                    THEN { Some(image) : image \in MainImages(property_id) }
                    ELSE { None } :
                  property_images' =
                    (IF existing = None THEN property_images
                     ELSE Demoted(property_images, The(existing)))
                      \cup { db_image }
             /\ http_response' =
                  ImageResponse(db_image,
                                "Image uploaded and optimized successfully")
             /\ UNCHANGED << settings, properties, property_notes, uuids >>
    /\ UNCHANGED service

\* lines 177-256: a pasted image is stored under a fresh name and is never
\* the main image
paste_image(property_id, data) ==
    /\ pc = "idle" /\ served < MaxRequests
    /\ served' = served + 1
    /\ request' = Request("paste_image", Some(property_id), None)
    /\ IF "image_data" \notin DOMAIN data
       THEN /\ http_response' =
                 HttpResponse(400, Some([detail |-> "No image data provided"]))
            /\ UNCHANGED database
       ELSE IF property_id \notin DOMAIN properties
       THEN /\ http_response' = NotFound
            /\ UNCHANGED database
       ELSE IF ~data["image_data"]
       THEN /\ http_response' =
                 HttpResponse(400,
                   Some([detail |-> "Error processing pasted image"]))
            /\ UNCHANGED database
       ELSE
         LET filename == PastedFilename(uuids + 1)
             db_image == PropertyImage(NewId(Ids(property_images)),
                                       filename, FALSE, Some(property_id))
         IN  /\ uuids' = uuids + 1
             /\ files' =
                  files \cup { File(PropertyImageDir(property_id), filename) }
             /\ property_images' = property_images \cup { db_image }
             /\ http_response' =
                  ImageResponse(db_image,
                                "Image pasted and optimized successfully")
             /\ UNCHANGED << settings, properties, property_notes >>
    /\ UNCHANGED service

\* lines 259-284: the image of the property with the id is deleted, the file
\* under the directory of the property and the row
delete_image(property_id, image_id) ==
    /\ pc = "idle" /\ served < MaxRequests
    /\ served' = served + 1
    /\ request' = Request("delete_image", Some(property_id), None)
    /\ LET found == { image \in property_images :
                        /\ image.id = image_id
                        /\ image.property_id = Some(property_id) }
       IN  IF found = {}
           THEN /\ http_response' =
                     HttpResponse(404, Some([detail |-> "Image not found"]))
                /\ UNCHANGED database
           ELSE LET db_image == CHOOSE image \in found : TRUE
                IN  /\ files' =
                         files \ { File(PropertyImageDir(property_id),
                                        db_image.filename) }
                    /\ property_images' = property_images \ { db_image }
                    /\ http_response' =
                         HttpResponse(200, Some([detail |-> "Image deleted"]))
                    /\ UNCHANGED << settings, properties, property_notes,
                                    uuids >>
    /\ UNCHANGED service

\* the form that the properties of the image requests are made of
ImageForms == { form \in Forms : form["address"] # "" }

\* the requests that store, replace and delete images; without an origin
\* address in the settings the travel-time service is not called
NextImages ==
    \/ \E form \in ImageForms, main_image \in Uploads :
          create_property(form, main_image)
            /\ UNCHANGED backup_service
    \/ \E property_id \in PropertyIds, form \in ImageForms,
          main_image \in Uploads, keep_main_image \in KeepMainImage :
          update_property(property_id, form, main_image, keep_main_image)
            /\ UNCHANGED backup_service
    \/ \E property_id \in PropertyIds, is_main \in BOOLEAN,
          file \in ImageUploads :
          upload_image(property_id, is_main, file)
            /\ UNCHANGED backup_service
    \/ \E property_id \in PropertyIds, data \in PastedData :
          paste_image(property_id, data)
            /\ UNCHANGED backup_service
    \/ \E property_id \in PropertyIds, image_id \in ImageIds :
          delete_image(property_id, image_id)
            /\ UNCHANGED backup_service
    \/ \E property_id \in PropertyIds : delete_property(property_id)
            /\ UNCHANGED backup_service

SpecImages == Init /\ [][NextImages]_vars

(* -------------------- backup_service.py: the backups ------------------- *)

\* the number of calls of the backup service
MaxBackupCalls == 3

\* last day the clock may reach while the backup service works
MaxBackupDay == 2

\* two digits, as %d, %H, %M and %S give them
Pad2(n) == (IF n < 10 THEN "0" ELSE "") \o ToString(n)

\* line 68: strftime("%Y%m%d_%H%M%S") of a moment of January 1970
Strftime(m) ==
    "197001" \o Pad2(m.day + 1) \o "_" \o Pad2(m.hour) \o Pad2(m.minute)
      \o Pad2(m.second)

\* line 69
BackupFilename(m) == "rentals_backup_" \o Strftime(m) \o ".db"

\* line 77: datetime.isoformat() of a moment of January 1970
IsoFormat(m) ==
    "1970-01-" \o Pad2(m.day + 1) \o "T" \o Pad2(m.hour) \o ":"
      \o Pad2(m.minute) \o ":" \o Pad2(m.second)
      \o (IF m.microsecond = 0 THEN "" ELSE "." \o ToString(m.microsecond))

\* lines 25-30: the keys of default_config that the service reads and writes
DefaultConfig == [max_backups |-> 7, last_backup_time |-> None]

\* lines 23-41: the content of the file merged over the defaults
get_backup_config ==
    IF backup_config = None THEN DefaultConfig
    ELSE The(backup_config) @@ DefaultConfig

\* the values of max_backups that update_max_backups is given
MaxBackupsValues == { 0, 1, 2, 50, 51 }

\* the sequences without repetition of the names of a directory: the
\* orders in which os.listdir may give them
Listdir(dir) ==
    LET n == Cardinality(DOMAIN dir)
    IN  { names \in [1..n -> DOMAIN dir] :
            \A i, j \in 1..n : i # j => names[i] # names[j] }

\* lines 92-115: the backups sorted by st_mtime, newest first; the sort is
\* stable, so files of one st_mtime stay in the order of os.listdir
get_backup_files(dir) ==
    { backups \in Listdir(dir) :
        \A i, j \in 1..Len(backups) :
           i < j => ~Before(dir[backups[i]].mtime, dir[backups[j]].mtime) }

\* lines 126-132: the backups after the first max_backups are removed
RemoveExcess(dir, backups, max_backups) ==
    IF Len(backups) > max_backups
    THEN [name \in { backups[i] : i \in 1..max_backups } |-> dir[name]]
    ELSE dir

\* lines 48-59
update_max_backups(max_backups) ==
    /\ backup_calls < MaxBackupCalls
    /\ backup_calls' = backup_calls + 1
    /\ IF ~(1 <= max_backups /\ max_backups <= 50)
       THEN /\ backup_result' = Some([return |-> FALSE])
            /\ UNCHANGED << backup_config, backup_files >>
       ELSE /\ backup_config' =
                 Some(Put(get_backup_config, "max_backups", max_backups))
            /\ \E backups \in get_backup_files(backup_files) :
                  backup_files' =
                    RemoveExcess(backup_files, backups, max_backups)
            /\ backup_result' = Some([return |-> TRUE])
    /\ UNCHANGED db_file

\* lines 61-90: the database file is copied with its st_mtime (copy2), the
\* time of the backup is written to the configuration and the excess
\* backups are removed; a copy that fails leaves everything as it was
create_backup(copied) ==
    /\ backup_calls < MaxBackupCalls
    /\ backup_calls' = backup_calls + 1
    /\ IF db_file = None
       THEN /\ backup_result' =
                 Some([success |-> FALSE,
                       message |-> "Database file not found"])
            /\ UNCHANGED << backup_config, backup_files >>
       ELSE IF ~copied
       THEN /\ backup_result' =
                 Some([success |-> FALSE, message |-> "Backup failed"])
            /\ UNCHANGED << backup_config, backup_files >>
       ELSE
         LET backup_filename == BackupFilename(now)
             dir == Put(backup_files, backup_filename,
                        [mtime |-> The(db_file), ctime |-> now])
             config == Put(get_backup_config, "last_backup_time",
                           Some(IsoFormat(now)))
         IN  /\ backup_config' = Some(config)
             /\ \E backups \in get_backup_files(dir) :
                   backup_files' =
                     RemoveExcess(dir, backups, config["max_backups"])
             /\ backup_result' =
                  Some([success |-> TRUE,
                        message |-> "Backup created successfully: "
                                      \o backup_filename,
                        filename |-> backup_filename])
    /\ UNCHANGED db_file

\* a request handler commits: the database file is written
WriteDatabase ==
    /\ db_file # Some(now)
    /\ db_file' = Some(now)
    /\ UNCHANGED << backup_files, backup_config, backup_result,
                    backup_calls >>

\* the property API before the backup service is called
InitBackup ==
    /\ api_key = None
    /\ now = StartOfService
    /\ pc = "idle"
    /\ args = NoArgs
    /\ InitLocals
    /\ requests = << >>
    /\ response = NoResponse
    /\ raised = None
    /\ result = None
    /\ settings = None
    /\ properties = EmptyDict
    /\ property_images = {}
    /\ property_notes = {}
    /\ files = {}
    /\ uuids = 0
    /\ request = NoRequest
    /\ http_response = NoHttpResponse
    /\ served = 0
    /\ db_file \in { None, Some(StartOfService) }
    /\ backup_files = EmptyDict
    /\ backup_config = None
    /\ backup_result = None
    /\ backup_calls = 0

\* what is left alone while the backup service works
BackupFrame == << database, request, http_response, served >>

NextBackup ==
    \/ \E max_backups \in MaxBackupsValues :
          update_max_backups(max_backups)
            /\ UNCHANGED << service, BackupFrame >>
    \/ \E copied \in BOOLEAN :
          create_backup(copied) /\ UNCHANGED << service, BackupFrame >>
    \/ WriteDatabase /\ UNCHANGED << service, BackupFrame >>
    \/ \E m \in Moments :
          m.day <= MaxBackupDay /\ now' = m /\ Tick /\ UNCHANGED store

SpecBackup == InitBackup /\ [][NextBackup]_vars

(* ------------------------------ claims -------------------------------- *)

\* the call goes through the routing service
ApiMode == Truthy(api_key)

\* the step is one turn of the loop over the slots (lines 48-63)
FetchStep == pc = "fetch" /\ Len(requests') = Len(requests) + 1

\* the key of the slot that a FetchStep handles
FetchKey == SlotKeys[slot]

\* the answer of the routing service has a top-level status other than "OK"
TopLevelNotOK(r) ==
    r.transport = "HTTP 200" /\ r.body # None /\ The(r.body).status # "OK"

\* the answer makes the slot fail for a reason of its own: transport or
\* HTTP error, malformed payload, no route element, element status not
\* "OK", no duration
SlotLocalFailure(r) == r \in FailingResponses /\ ~TopLevelNotOK(r)

\* the keys of d that end with _anomaly or _note
AnomalyKeys(d) ==
    { k \in DOMAIN d : \E key \in SlotKeySet :
                          k = AnomalyKey(key) \/ k = NoteKey(key) }

\* every entry of d is an entry of e
Keeps(d, e) == \A k \in DOMAIN d : k \in DOMAIN e /\ e[k] = d[k]

C2_SlotFailureIsLocal ==
    [][ /\ (FetchStep /\ SlotLocalFailure(response'))
            => /\ travel_times' = Put(travel_times, FetchKey, None)
               /\ raised' = None
               /\ pc' = IF slot = NumSlots THEN "detect" ELSE "fetch"
        /\ (FetchStep /\ response' \notin FailingResponses)
            => /\ travel_time_data' # None
               /\ DOMAIN travel_times' =
                    DOMAIN travel_times \cup {FetchKey, DisplayKey(FetchKey)}
               /\ travel_times'[FetchKey] =
                    Some(The(travel_time_data').conservative)
               /\ travel_times'[DisplayKey(FetchKey)] =
                    The(travel_time_data').display
        /\ FetchStep => Keeps(travel_times, travel_times')
        /\ pc = "detect"
            => /\ pc' = "returned" /\ raised' = None
               /\ result' = Some(travel_times')
               /\ Keeps(travel_times, travel_times')
      ]_vars

\* C2 witness: a returned result in which only the midday slot is absent and
\* the four other slots carry a value and a display string.
C2_Witness ==
    /\ pc = "returned" /\ ApiMode /\ result # None
    /\ The(result)["travel_time_midday"] = None
    /\ DisplayKey("travel_time_midday") \notin DOMAIN The(result)
    /\ \A k \in SlotKeySet \ {"travel_time_midday"} :
         /\ The(result)[k] # None
         /\ DisplayKey(k) \in DOMAIN The(result)

\* the element at index n // 2 of the values in ascending order: the value
\* with at most n // 2 values below it and more than n // 2 not above it
MedianOf(times) ==
    LET n == Len(times)
        below(v) == Cardinality({ i \in 1..n : times[i] < v })
        notAbove(v) == Cardinality({ i \in 1..n : times[i] <= v })
    IN  CHOOSE v \in { times[i] : i \in 1..n } :
          below(v) <= n \div 2 /\ notAbove(v) > n \div 2

\* the slot carries an anomaly flag in d
Flagged(d, key) == AnomalyKey(key) \in DOMAIN d /\ d[AnomalyKey(key)] = TRUE

MorningSlots == { "travel_time_830am", "travel_time_930am" }

\* C3: whenever anomaly detection runs, a slot is flagged iff it is the 08:30
\* or the 09:30 slot and its conservative value is strictly greater than
\* twice the median conservative value of the call; five equal values give no
\* flag; an 08:30 value of 3 times every other (positive) value flags 08:30
\* and no other slot.
C3_FlagIffMorningOutlier ==
    (pc = "returned" /\ ApiMode /\ Len(all_times) >= 3 /\ ~anomaly_detected)
        => LET r == The(result)
               median == MedianOf(all_times)
           IN  /\ \A key \in SlotKeySet :
                     Flagged(r, key)
                       <=> /\ key \in MorningSlots
                           /\ r[key] # None
                           /\ The(r[key]) > 2 * median
               /\ (\A j, k \in SlotKeySet : r[j] = r[k])
                     => \A key \in SlotKeySet : ~Flagged(r, key)
               /\ (\A k \in SlotKeySet \ {"travel_time_830am"} :
                      /\ r[k] # None /\ The(r[k]) > 0
                      /\ r["travel_time_830am"] = Some(3 * The(r[k])))
                     => /\ Flagged(r, "travel_time_830am")
                        /\ \A k \in SlotKeySet \ {"travel_time_830am"} :
                              ~Flagged(r, k)

\* C3 witness: detection ran on an 08:30 value of 3 times the value of the
\* four other slots; 08:30 is flagged and no other slot is.
C3_Witness ==
    /\ pc = "returned" /\ ApiMode /\ ~anomaly_detected /\ result # None
    /\ The(result)["travel_time_830am"] = Some(Minutes(39))
    /\ \A k \in SlotKeySet \ {"travel_time_830am"} :
          The(result)[k] = Some(Minutes(13)) /\ ~Flagged(The(result), k)
    /\ Flagged(The(result), "travel_time_830am")

\* C4: a result carries an anomaly flag or note only if at least 3 of the 5
\* slots produced an estimate and no slot raised an error; when a slot
\* errored or fewer than 3 succeeded there is no flag and no note.
C4_DetectionNeedsCleanRun ==
    (pc = "returned" /\ ApiMode)
        => LET r == The(result)
               succeeded == { k \in SlotKeySet : r[k] # None }
           IN  (Cardinality(succeeded) < 3 \/ succeeded # SlotKeySet
                  \/ anomaly_detected)
                 => AnomalyKeys(r) = {}

\* C4 witness: one slot errored, four succeeded, the 08:30 value is more than
\* twice the median, and the result carries no flag and no note.
C4_Witness ==
    /\ pc = "returned" /\ ApiMode /\ result # None /\ anomaly_detected
    /\ The(result)["travel_time_630pm"] = None
    /\ The(result)["travel_time_830am"] = Some(Minutes(39))
    /\ \A k \in {"travel_time_930am", "travel_time_midday", "travel_time_730pm"} :
          The(result)[k] = Some(Minutes(13))
    /\ AnomalyKeys(The(result)) = {}

\* C5 (as stated): every slot that carries an anomaly flag also carries the
\* explanatory note, for every use_tuesday and day_offset.
C5_FlagCarriesNote ==
    (pc = "returned" /\ ApiMode)
        => \A key \in SlotKeySet :
              Flagged(The(result), key)
                => /\ NoteKey(key) \in DOMAIN The(result)
                   /\ The(result)[NoteKey(key)] = AnomalyNote

\* C5 (amended): a flagged slot carries the explanatory note exactly when the
\* call is a first attempt (use_tuesday false and day_offset 0); with
\* use_tuesday true or day_offset not 0 a flagged slot carries no note.  A
\* note is never attached to a slot that is not flagged.
C5_FlagCarriesNoteOnFirstAttempt ==
    (pc = "returned" /\ ApiMode)
        => \A key \in SlotKeySet :
              LET r == The(result)
                  noted == NoteKey(key) \in DOMAIN r
              IN  /\ noted => Flagged(r, key) /\ r[NoteKey(key)] = AnomalyNote
                  /\ Flagged(r, key)
                       => (noted <=> (~args.use_tuesday /\ args.day_offset = 0))

\* C5 witness: a Tuesday calculation whose 08:30 slot is flagged and carries
\* no note.
C5_Witness ==
    /\ pc = "returned" /\ ApiMode /\ result # None
    /\ args.use_tuesday /\ args.day_offset = 0
    /\ Flagged(The(result), "travel_time_830am")
    /\ NoteKey("travel_time_830am") \notin DOMAIN The(result)

\* day d (days since 1970-01-01) is a Monday: 1970-01-05 was one
IsMonday(d) == (d - 4) % 7 = 0

IsTuesday(d) == (d - 5) % 7 = 0

\* the step adds the entry of the slot at hand to time_slots
DepartStep ==
    /\ pc = "depart"
    /\ FetchKey \notin DOMAIN time_slots
    /\ FetchKey \in DOMAIN time_slots'

\* C6: for every day of the week, slot, weekday choice and day_offset d the
\* departure moment is the first target weekday (Monday, or Tuesday with
\* use_tuesday) strictly after today - 7 days ahead, never today, when today
\* is the target weekday - shifted by d days, at the slot's hour and minute
\* with zero seconds.
C6_DepartureMoment ==
    [][ DepartStep
          => LET departure == FromTimestamp(time_slots'[FetchKey])
                 occurrence == departure.day - args.day_offset
                 target(d) == IF args.use_tuesday THEN IsTuesday(d)
                              ELSE IsMonday(d)
             IN  /\ target(occurrence)
                 /\ occurrence > now.day
                 /\ \A d \in (now.day + 1) .. (occurrence - 1) : ~target(d)
                 /\ target(now.day) => occurrence = now.day + 7
                 /\ departure.hour = SlotTime[slot][1]
                 /\ departure.minute = SlotTime[slot][2]
                 /\ departure.second = 0
                 /\ time_slots'[FetchKey] =
                      departure.day * 86400 + departure.hour * 3600
                        + departure.minute * 60
      ]_vars

\* C6 witness: on a Monday at 23:59:59.999999, day_offset -1 and the Monday
\* chosen, the 08:30 departure is 6 days ahead at 08:30:00 (7 days, less 1).
C6_Witness ==
    /\ pc = "depart" /\ slot = 2
    /\ now = [day |-> 4, hour |-> 23, minute |-> 59, second |-> 59,
              microsecond |-> 999999]
    /\ ~args.use_tuesday /\ args.day_offset = -1
    /\ time_slots["travel_time_830am"] = 10 * 86400 + 8 * 3600 + 30 * 60

\* the duration that _get_travel_time works on: the traffic-aware one when
\* there is one
ChosenSeconds(r) ==
    LET element == The(r.body).rows[1].elements[1]
    IN  IF element.duration_in_traffic # None
        THEN The(element.duration_in_traffic)
        ELSE The(element.duration)

\* C7: for every slot computed from a routing response, typical is the chosen
\* duration / 60 rounded to one decimal (within 0.05 of it, a multiple of
\* 0.1), max = round(typical * 1.3) and min = max(1, round(typical * 0.7))
\* (whole minutes within 0.5 of the product), display = "min-max" and
\* conservative = max; typical = 1 gives min = 1.
C7_BoundsFormula ==
    (pc = "applied" /\ response \notin FailingResponses)
        => /\ travel_time_data # None
           /\ LET d == The(travel_time_data)
                  seconds == ChosenSeconds(response)
              IN  /\ d.typical % 10 = 0
                  /\ Abs(6 * (d.typical \div 10) - seconds) <= 3
                  /\ d.max % 100 = 0
                  /\ Abs(10 * d.max - 13 * d.typical) <= 500
                  /\ \E m \in 0 .. (d.typical \div 100 + 1) :
                        /\ Abs(1000 * m - 7 * d.typical) <= 500
                        /\ d.min = 100 * (IF m < 1 THEN 1 ELSE m)
                  /\ d.display = ToString(d.min \div 100) \o "-"
                                   \o ToString(d.max \div 100)
                  /\ d.conservative = d.max
                  /\ d.typical = 100 => d.min = 100

\* C7 witness: a duration of 60 s gives typical = 1 and "1-1".
C7_Witness ==
    /\ pc = "applied" /\ travel_time_data # None
    /\ response = OkResponse(Some(60), Some(MaxSeconds))
    /\ The(travel_time_data).typical = 100
    /\ The(travel_time_data).min = 100
    /\ The(travel_time_data).display = "1-1"

\* the display string shows hi (whole minutes, fixed point) as upper bound
ShowsMax(display, hi) ==
    /\ hi % 100 = 0
    /\ \E lo \in 0 .. (hi \div 100 + 100) :
          display = ToString(lo) \o "-" \o ToString(hi \div 100)

\* C8 (as stated): in every result, of the routing path or of the fallback
\* estimator, the value of a slot is the conservative estimate: the upper
\* bound shown in the slot's display string.
C8_ValueIsDisplayMax ==
    pc = "returned"
        => \A key \in SlotKeySet :
              The(result)[key] # None
                => /\ DisplayKey(key) \in DOMAIN The(result)
                   /\ ShowsMax(The(result)[DisplayKey(key)],
                               The(The(result)[key]))

\* C8 (amended): in a result of the routing path the value of a slot is the
\* conservative estimate, the upper bound shown in its display string.  In a
\* result of the fallback estimator the value v of a slot is the base
\* estimate times the slot's multiplier, not a bound: the display string
\* shows max(1, round(0.7 v)) and round(1.3 v), and an absent slot shows
\* "N/A".
C8_ValueIsDisplayMaxOnRoutingPath ==
    pc = "returned"
        => LET r == The(result)
           IN  IF ApiMode
               THEN \A key \in SlotKeySet :
                       r[key] # None
                         => /\ DisplayKey(key) \in DOMAIN r
                            /\ ShowsMax(r[DisplayKey(key)], The(r[key]))
               ELSE \A i \in 1..NumSlots :
                       LET key == SlotKeys[i]
                           v == The(r[key])
                       IN  IF r[key] = None
                           THEN r[DisplayKey(key)] = "N/A"
                           ELSE /\ 10 * v = The(r["travel_time_midday"])
                                             * <<13, 11, 10, 14, 12>>[i]
                                /\ \E lo, hi \in 0 .. ((13 * v) \div 1000 + 1) :
                                      /\ Abs(1000 * lo - 7 * v) <= 500
                                      /\ Abs(1000 * hi - 13 * v) <= 500
                                      /\ r[DisplayKey(key)] =
                                           ToString(IF lo < 1 THEN 1 ELSE lo)
                                             \o "-" \o ToString(hi)

\* C8 witness: the fallback estimator returned 78.0 minutes for 08:30 (a base
\* of 60.0) with the display string "55-101".
C8_Witness ==
    /\ pc = "returned" /\ ~ApiMode /\ result # None
    /\ The(result)["travel_time_830am"] = Some(7800)
    /\ The(result)["travel_time_830am_display"] = "55-101"

\* C9: a call with an empty or missing origin or destination fails with the
\* invalid-input error before any outbound request, with or without a key.
C9_InvalidInputRaisesFirst ==
    (pc # "idle"
       /\ (args.origin \in {None, Some("")} \/ args.destination \in {None, Some("")}))
        => /\ pc = "raised"
           /\ raised = Some("ValueError")
           /\ requests = << >>
           /\ result = None

\* C9 witness: no key is configured, the destination is empty, and the call
\* has raised without a request.
C9_Witness ==
    /\ pc = "raised" /\ api_key = None
    /\ args.origin = Some("1 Home Rd") /\ args.destination = Some("")
    /\ requests = << >>

\* the services that the requests of the call went to
Services == { requests[i].service : i \in 1..Len(requests) }

\* C10: one call never mixes sources: without a key every request is a
\* geocoding request and the values are those of the fallback estimator; with
\* a key every request is a routing request (one per slot) and every value
\* is absent or the conservative value of a routing answer, also when
\* routing requests fail.
C10_NoMixedSources ==
    /\ Services \subseteq (IF api_key = None THEN {"nominatim"}
                           ELSE {"distancematrix"})
    /\ pc = "returned"
         => LET r == The(result)
            IN  IF api_key = None
                THEN /\ Len(requests) = 2
                     /\ \A i \in 1..NumSlots :
                          r[SlotKeys[i]] # None
                            => 10 * The(r[SlotKeys[i]]) =
                                 The(r["travel_time_midday"])
                                   * <<13, 11, 10, 14, 12>>[i]
                ELSE /\ Len(requests) = NumSlots
                     /\ \A key \in SlotKeySet :
                          r[key] # None
                            => \E seconds \in Durations :
                                 \E d \in Estimates(seconds) :
                                    /\ r[key] = Some(d.conservative)
                                    /\ r[DisplayKey(key)] = d.display

\* C10 witness: with a key all five routing requests failed; the result has
\* five absent values and no geocoding request was made.
C10_Witness ==
    /\ pc = "returned" /\ api_key # None /\ result # None
    /\ \A key \in SlotKeySet : The(result)[key] = None
    /\ Len(requests) = NumSlots
    /\ Services = {"distancematrix"}

\* the answer of the geocoding service is anything but a JSON array whose
\* first element has lat and lon
GeocodingFailed(r) ==
    r \notin { Response("HTTP 200", Some(<< c >>)) : c \in GeoPoints }

\* the step geocodes the origin / the destination (lines 220-221)
OriginStep == pc = "geocode_origin" /\ pc' # pc

DestinationStep == pc = "geocode_destination" /\ pc' # pc

\* every slot of the result dictionary d is absent
AllAbsent(d) == \A key \in SlotKeySet : key \in DOMAIN d /\ d[key] = None

\* C11: in fallback mode a geocoding failure of the origin or of the
\* destination (transport or HTTP error, no JSON, empty array, first element
\* without lat/lon) makes the call return normally with all five slot
\* estimates absent; nothing is raised.
C11_GeocodingFailureGivesAbsent ==
    [][ /\ (OriginStep /\ GeocodingFailed(response'))
            => /\ origin_coords' = None
               /\ pc' = "geocode_destination"
               /\ raised' = None
        /\ (OriginStep /\ ~GeocodingFailed(response'))
            => origin_coords' # None
        /\ (DestinationStep
              /\ (origin_coords = None \/ GeocodingFailed(response')))
            => /\ pc' = "returned"
               /\ raised' = None
               /\ result' # None
               /\ AllAbsent(The(result'))
      ]_vars

\* C11 witness: the origin was geocoded, the geocoding service answered the
\* request for the destination with HTTP 500, and the call returned five
\* absent estimates.
C11_Witness ==
    /\ pc = "returned" /\ ~ApiMode /\ raised = None
    /\ origin_coords # None
    /\ response = Response("HTTP 500", None)
    /\ result # None /\ AllAbsent(The(result))

\* both addresses of a returned fallback call were geocoded
BothGeocoded ==
    /\ pc = "returned" /\ ~ApiMode
    /\ origin_coords # None /\ ~GeocodingFailed(response)

\* their distance, in units of 10 m
FallbackDistance ==
    LET lat1 == The(origin_coords).lat
        lat2 == The(response.body)[1].lat
    IN  IF lat1 <= lat2 THEN lat2 - lat1 ELSE lat1 - lat2

\* C12 (as stated): with both addresses geocoded at distance D km the base
\* time is (D / 40) * 60 minutes, and the five slot values are the base times
\* 1.3, 1.1, 1.0, 1.4 and 1.2.  In hundredths of a minute and units of 10 m
\* the base is 1.5 * distance.
C12_BaseIsDistanceOverSpeed ==
    BothGeocoded
        => \A i \in 1..NumSlots :
              LET value == The(result)[SlotKeys[i]]
              IN  /\ value # None
                  /\ 100 * The(value) =
                       15 * FallbackDistance * <<13, 11, 10, 14, 12>>[i]

\* C12 (amended): the base time is (D / 40) * 60 minutes rounded to one
\* decimal; when the rounded base is 0.0 all five values are absent, and
\* otherwise they are the base times 1.3, 1.1, 1.0, 1.4 and 1.2.  For 40 km
\* the midday value is 60 and the 08:30 value is 78.
C12_BaseIsRoundedDistanceOverSpeed ==
    BothGeocoded
        => /\ \E tenths \in 0..(2 * FallbackDistance + 1) :
                LET base == 10 * tenths
                IN  /\ 2 * base - 3 * FallbackDistance <= 10
                    /\ 3 * FallbackDistance - 2 * base <= 10
                    /\ IF base = 0
                       THEN AllAbsent(The(result))
                       ELSE \A i \in 1..NumSlots :
                              The(result)[SlotKeys[i]] =
                                Some((base * <<13, 11, 10, 14, 12>>[i]) \div 10)
           /\ FallbackDistance = 4000
                => /\ The(result)["travel_time_midday"] = Some(Minutes(60))
                   /\ The(result)["travel_time_830am"] = Some(Minutes(78))

\* C12 witness: the addresses are 180 m apart (0.27 minutes at 40 km/h): the
\* base is 0.3 minutes, the 08:30 value 0.39 and the 18:30 value 0.42.
C12_Witness ==
    /\ BothGeocoded
    /\ FallbackDistance = 18
    /\ The(result)["travel_time_midday"] = Some(30)
    /\ The(result)["travel_time_830am"] = Some(39)
    /\ The(result)["travel_time_630pm"] = Some(42)

\* C13: a result of the fallback estimator has no anomaly flag and no
\* anomaly note, for any slot and any values.
C13_FallbackHasNoAnomaly ==
    (pc = "returned" /\ ~ApiMode)
        => /\ result # None
           /\ AnomalyKeys(The(result)) = {}
           /\ \A key \in SlotKeySet : ~Flagged(The(result), key)

\* C13 witness: the fallback returned 84 minutes for 18:30 and 60 for midday,
\* without a flag.
C13_Witness ==
    /\ pc = "returned" /\ ~ApiMode /\ result # None
    /\ The(result)["travel_time_630pm"] = Some(Minutes(84))
    /\ The(result)["travel_time_midday"] = Some(Minutes(60))
    /\ AnomalyKeys(The(result)) = {}

\* the two keys of the calculation metadata
MetadataKeys == { "calculation_day", "calculation_timestamp" }

\* the label of section 6 of the specification for the arguments of the call
DayLabel ==
    LET name == IF args.use_tuesday THEN "Tuesday" ELSE "Monday"
    IN  IF args.day_offset = 0 THEN "next " \o name
        ELSE IF args.day_offset > 0
        THEN "future " \o name \o " (" \o ToString(args.day_offset)
               \o " days ahead)"
        ELSE "past " \o name \o " (" \o ToString(0 - args.day_offset)
               \o " days ago)"

\* C14 (as stated): every result that the call returns, on the routing path
\* and on the fallback path, has calculation_day and calculation_timestamp.
C14_ResultHasMetadata ==
    pc = "returned"
        => /\ result # None
           /\ MetadataKeys \subseteq DOMAIN The(result)

\* C14 (amended): every result of the routing path has calculation_day (the
\* label of the weekday and the offset) and calculation_timestamp (the unix
\* seconds of the clock, an integer); a result of the fallback path has
\* neither key.
C14_ResultHasMetadataOnRoutingPath ==
    pc = "returned"
        => /\ result # None
           /\ IF ApiMode
              THEN /\ MetadataKeys \subseteq DOMAIN The(result)
                   /\ The(result)["calculation_day"] = DayLabel
                   /\ The(result)["calculation_timestamp"] \in Nat
                   /\ The(result)["calculation_timestamp"] =
                        now.day * 86400 + now.hour * 3600
                          + now.minute * 60 + now.second
              ELSE MetadataKeys \cap DOMAIN The(result) = {}

\* C14 witness: a call for Tuesday shifted by one day returned on the routing
\* path with its label and timestamp.
C14_Witness ==
    /\ pc = "returned" /\ ApiMode /\ result # None
    /\ args.use_tuesday /\ args.day_offset = 1
    /\ The(result)["calculation_day"] = "future Tuesday (1 days ahead)"
    /\ The(result)["calculation_timestamp"] = 86399

\* the arguments of the call are the invalid input of line 27
InvalidArgs ==
    args.origin \in { None, Some("") } \/ args.destination \in { None, Some("") }

\* the step starts a call (lines 27-34)
CallStep == pc = "idle" /\ pc' # "idle"

CalculateReturnStep ==
    /\ request.handler = "calculate_travel_times"
    /\ pc \in { "returned", "raised" }
    /\ pc' = "idle"

\* the five stored travel-time fields of a row
TravelFields(db_property) == [key \in SlotKeySet |-> db_property[key]]

\* the submitted fields of a row
SubmittedFields(db_property) == [k \in FormFields |-> db_property[k]]

\* the property that the request at hand names
RequestId == The(request.property_id)

HasAnomalyFlag(d) == \E key \in SlotKeySet : Flagged(d, key)

\* C17: when the estimate computed by the calculate-travel-times request
\* carries an anomaly flag, the request is answered 200, the five
\* conservative values are persisted on the property and a note that
\* describes the anomaly is added to the notes of that property.
C17_AnomalyIsPersistedWithNote ==
    [][ (CalculateReturnStep /\ pc = "returned"
           /\ HasAnomalyFlag(The(result)))
            => /\ http_response'.status = 200
               /\ \A key \in SlotKeySet :
                    properties'[RequestId][key] = The(result)[key]
               /\ \E note \in property_notes' \ property_notes :
                    note.property_id = RequestId
      ]_vars

\* the step is the second part of create_property (lines 80-92)
CreateReturnStep ==
    /\ request.handler = "create_property"
    /\ pc \in { "returned", "raised" }
    /\ pc' = "idle"

\* the step is the first part of create_property (lines 28-79)
CreateStep ==
    /\ pc = "idle" /\ served' = served + 1
    /\ request'.handler = "create_property"

\* C18: create_property tolerates every outcome of the travel-time
\* calculation.  Whatever subset of slots is absent, and when the calculation
\* raises, the request is answered 200 with the property, the property is
\* stored with its submitted fields, a slot with a value has it stored and an
\* absent slot leaves its field unset (None).
C18_CreateToleratesCalculation ==
    [][ /\ CreateStep
            => /\ The(request'.property_id) \in DOMAIN properties'
               /\ SubmittedFields(properties'[The(request'.property_id)]) =
                    The(request'.form)
        /\ CreateReturnStep
            => /\ http_response'.status = 200
               /\ RequestId \in DOMAIN properties'
               /\ SubmittedFields(properties'[RequestId]) =
                    The(request.form)
               /\ \A key \in SlotKeySet :
                    properties'[RequestId][key] =
                      (IF pc = "returned" THEN The(result)[key] ELSE None)
               /\ \A k \in Columns :
                    The(http_response'.body)[k] = properties'[RequestId][k]
      ]_vars

\* C18 witness: the routing service refused the 19:30 request during
\* create_property; the property is stored with 13 minutes for the other
\* slots, the 19:30 field is unset and the answer is 200.
C18_Witness ==
    /\ pc = "idle" /\ ApiMode
    /\ request.handler = "create_property"
    /\ http_response.status = 200
    /\ RequestId \in DOMAIN properties
    /\ properties[RequestId]["address"] = "9 Rental Ave"
    /\ properties[RequestId]["travel_time_730pm"] = None
    /\ properties[RequestId]["travel_time_midday"] = Some(Minutes(13))

\* the step serves a request of the handler given for property id
ServesFor(handlers, id) ==
    /\ served' = served + 1
    /\ request'.handler \in handlers
    /\ request'.property_id = Some(id)

\* C19: create/read round trip.  The answer of create_property carries the
\* id of a stored property whose submitted fields are the submitted values;
\* no step but an update, a partial update or a delete of that property
\* changes them or removes the property, whatever else is created; and
\* read_property of a stored id is answered 200 with the stored fields.
C19_CreateReadRoundTrip ==
    [][ /\ (request'.handler = "create_property"
              /\ http_response'.status = 200
              /\ http_response' # http_response)
            => LET id == The(request'.property_id)
               IN  /\ id \in DOMAIN properties'
                   /\ The(http_response'.body)["id"] = id
                   /\ SubmittedFields(properties'[id]) = The(request'.form)
                   /\ SubmittedFields(The(http_response'.body)) =
                        The(request'.form)
        /\ \A id \in DOMAIN properties :
             ~ServesFor({ "update_property", "update_property_partial",
                          "delete_property" }, id)
                => /\ id \in DOMAIN properties'
                   /\ properties'[id]["id"] = id
                   /\ SubmittedFields(properties'[id]) =
                        SubmittedFields(properties[id])
        /\ \A id \in DOMAIN properties :
             ServesFor({ "read_property" }, id)
                => /\ http_response'.status = 200
                   /\ The(http_response'.body)["id"] = id
                   /\ SubmittedFields(The(http_response'.body)) =
                        SubmittedFields(properties[id])
      ]_vars

\* C19 witness: property 1 was created, then two other requests were
\* served and a second property is stored; read_property(1) is answered 200
\* with the address of property 1.
C19_Witness ==
    /\ request = Request("read_property", Some(1), None)
    /\ served = 4
    /\ DOMAIN properties = { 1, 2 }
    /\ http_response.status = 200
    /\ The(http_response.body)["address"] = "9 Rental Ave"
    /\ properties[2]["address"] = ""

\* the request is for a property that is not stored
NotStoredStep ==
    /\ served' = served + 1
    /\ request'.handler \in
         { "read_property", "update_property", "delete_property" }
    /\ The(request'.property_id) \notin DOMAIN properties

\* C20 (as stated): after delete_property(i) succeeded, i is not stored in
\* any later state (read_property(i) is answered 404), whatever request is
\* served next; and delete_property, read_property and update_property of an
\* id that is not stored are answered 404 and leave the stored properties as
\* they are.
C20_DeletedIdStaysGone ==
    [][ /\ (request.handler = "delete_property" /\ http_response.status = 200)
            => RequestId \notin DOMAIN properties'
        /\ NotStoredStep
            => (http_response'.status = 404 /\ properties' = properties)
      ]_vars

\* C20 (amended): after delete_property(i) succeeded, i is not stored, and
\* read_property(i) is answered 404, until a later create_property is given
\* the id i again: a new property gets the largest stored id plus one (1 in
\* an empty table), so that the id of a deleted property is handed out again
\* when no property with a larger id is stored.  No other request stores an
\* id.  delete_property, read_property and update_property of an id that is
\* not stored are answered 404 and leave the database as it is.
C20_DeletedIdGoneUntilReused ==
    [][ /\ (ServesFor({ "delete_property" }, The(request'.property_id))
              /\ http_response'.status = 200)
            => /\ The(request'.property_id) \in DOMAIN properties
               /\ The(request'.property_id) \notin DOMAIN properties'
        /\ \A id \in DOMAIN properties' \ DOMAIN properties :
              /\ CreateStep
              /\ request'.property_id = Some(id)
              /\ \A other \in DOMAIN properties : other < id
              /\ (id = 1 \/ id - 1 \in DOMAIN properties)
        /\ NotStoredStep
            => /\ http_response'.status = 404
               /\ UNCHANGED database
        /\ \A id \in PropertyIds \ DOMAIN properties :
              ServesFor({ "read_property" }, id)
                => http_response'.status = 404
      ]_vars

\* C20 witness: property 1 was created with a main image and deleted (its
\* image row is left without a property), and the next create_property was
\* given the id 1 again.
C20_Witness ==
    /\ served = 3 /\ pc = "idle"
    /\ request.handler = "create_property"
    /\ request.property_id = Some(1)
    /\ DOMAIN properties = { 1 }
    /\ \E image \in property_images : image.property_id = None

\* the step serves update_property for a stored property
UpdateStep ==
    /\ ServesFor({ "update_property" }, The(request'.property_id))
    /\ The(request'.property_id) \in DOMAIN properties

\* C21: after update_property(i, v) succeeds on a stored property, the
\* returned and the stored property have id i and their address,
\* property_type, price, square footage, description, contacts and three
\* amenities are the submitted values v; the stored travel-time fields of
\* the property and every other property are unchanged.
C21_UpdateFrame ==
    [][ UpdateStep
          => LET id == The(request'.property_id)
                 v == The(request'.form)
             IN  /\ http_response'.status = 200
                 /\ DOMAIN properties' = DOMAIN properties
                 /\ properties'[id]["id"] = id
                 /\ The(http_response'.body)["id"] = id
                 /\ SubmittedFields(properties'[id]) = v
                 /\ SubmittedFields(The(http_response'.body)) = v
                 /\ TravelFields(properties'[id]) =
                      TravelFields(properties[id])
                 /\ TravelFields(The(http_response'.body)) =
                      TravelFields(properties[id])
                 /\ \A other \in DOMAIN properties \ {id} :
                      properties'[other] = properties[other]
      ]_vars

\* C21 witness: a property created at "9 Rental Ave" with 13 minutes stored
\* for midday was updated with the other form (other values in every
\* submitted field but air_conditioning); it keeps its travel times.
C21_Witness ==
    /\ request.handler = "update_property"
    /\ http_response.status = 200
    /\ properties[RequestId]["address"] = ""
    /\ properties[RequestId]["property_type"] = "Apartment"
    /\ properties[RequestId]["travel_time_midday"] = Some(Minutes(13))

\* the step serves read_properties with the default parameters
ReadPropertiesStep ==
    /\ served' = served + 1
    /\ request' = Request("read_properties", None,
                          Some([skip |-> DefaultSkip, limit |-> DefaultLimit]))

\* the stored properties
Stored == DOMAIN properties

DetectionStep ==
    /\ pc = "detect" /\ pc' = "returned"
    /\ Len(all_times) >= 3 /\ ~anomaly_detected

\* the values in ascending order
Ascending(times) == SortSeq(times, LAMBDA a, b : a < b)

\* the element at index floor(n/2), counted from 0, of the ascending list
ElementAtHalf(times) == Ascending(times)[(Len(times) \div 2) + 1]

\* C23: the median that anomaly detection uses is the element at index
\* floor(n/2) of the ascending-sorted list of the n successful conservative
\* values of the call, one of the values and not an interpolation: the pass
\* flags a morning slot iff its value is more than twice that element.
C23_MedianIsElementAtHalf ==
    [][ DetectionStep
          => LET median == ElementAtHalf(all_times)
                 n == Len(all_times)
             IN  /\ \E i \in 1..n : all_times[i] = median
                 /\ Cardinality({ i \in 1..n : all_times[i] < median })
                      <= n \div 2
                 /\ Cardinality({ i \in 1..n : all_times[i] <= median })
                      > n \div 2
                 /\ \A key \in MorningSlots :
                      Flagged(The(result'), key)
                        <=> /\ travel_times[key] # None
                            /\ The(travel_times[key]) > 2 * median
      ]_vars

\* C23 witness: detection ran on 39, 13, 39, 39 and 13 minutes; the element
\* at index 2 of 13, 13, 39, 39, 39 is 39 and the 08:30 value of 39 is not
\* flagged, as it would be against the element at index 1 (13).
C23_Witness ==
    /\ pc = "returned" /\ ApiMode /\ ~anomaly_detected /\ result # None
    /\ all_times = << Minutes(39), Minutes(13), Minutes(39), Minutes(39),
                      Minutes(13) >>
    /\ ElementAtHalf(all_times) = Minutes(39)
    /\ AnomalyKeys(The(result)) = {}

\* the keys of the flags and of the notes
FlagKeys ==
    { AnomalyKey(key) : key \in SlotKeySet }
        \cup { NoteKey(key) : key \in SlotKeySet }

\* C24: in an API-mode call at most one routing request is issued per slot,
\* at most five per call, in the order 08:30, 09:30, midday, 18:30, 19:30
\* (a step issues at most one request, the i-th request of the call carries
\* the departure time of the i-th slot, later than that of the request
\* before it); the anomaly pass starts only after all five requests have
\* finished, and a flag or a note is only ever present after five requests,
\* every slot having its entry.
C24_OneRequestPerSlotInOrder ==
    [][ ApiMode
          => /\ Len(requests') <= NumSlots
             /\ (requests' # requests /\ requests' # << >>)
                  => LET i == Len(requests) + 1
                     IN  /\ requests' =
                              Append(requests,
                                RoutingRequest(The(args.origin),
                                               The(args.destination),
                                               time_slots[SlotKeys[i]]))
                         /\ i > 1
                              => The(requests[i - 1].departure_time)
                                   < time_slots[SlotKeys[i]]
             /\ (pc' = "detect" \/ (pc = "detect" /\ pc' = "returned"))
                  => /\ Len(requests') = NumSlots
                     /\ SlotKeySet \subseteq DOMAIN travel_times'
             /\ DOMAIN travel_times' \cap FlagKeys # {}
                  => /\ Len(requests') = NumSlots
                     /\ Len(all_times') = NumSlots
      ]_vars

\* C24 witness: a call has returned with a flag on 08:30 after five routing
\* requests, the first for 08:30 and the last for 19:30 of the same day.
C24_Witness ==
    /\ pc = "returned" /\ ApiMode /\ result # None
    /\ Flagged(The(result), "travel_time_830am")
    /\ Len(requests) = NumSlots
    /\ The(requests[NumSlots].departure_time)
         - The(requests[1].departure_time) = 11 * 3600

\* C25: for every slot with a successful estimate the two bounds of the
\* display string satisfy min <= max, for every non-negative duration that
\* the routing service can answer, durations of 0 or a few seconds included
\* (here: the dict that _get_travel_time returns, whose display is
\* "min-max").
C25_DisplayMinAtMostMax ==
    (pc = "applied" /\ travel_time_data # None)
        => LET d == The(travel_time_data)
           IN  /\ d.display = Str(d.min) \o "-" \o Str(d.max)
               /\ d.min <= d.max

\* C26: in fallback mode, whenever both the origin and the destination are
\* geocoded, all five slots carry an estimate - also when both addresses
\* are geocoded to the same point or to points so close that the rounded
\* base time is 0.0.
C26_GeocodedGivesEstimates ==
    BothGeocoded
        => \A key \in SlotKeySet :
              /\ The(result)[key] # None
              /\ The(result)[DisplayKey(key)] # "N/A"

\* C27: within one call the five departure moments fall on the same calendar
\* date, however the clock advances between the five readings of the
\* current time, midnight included.
C27_DeparturesOnOneDate ==
    \A j, k \in DOMAIN time_slots :
        FromTimestamp(time_slots[j]).day = FromTimestamp(time_slots[k]).day

\* C28: after any sequence of create_property, update_property,
\* upload_image, paste_image and delete_image (and delete_property) every
\* property has at most one image with is_main set
C28_AtMostOneMainImage ==
    \A property_id \in DOMAIN properties :
       Cardinality(MainImages(property_id)) <= 1

\* a property whose main image was replaced by upload_image: the image
\* uploaded is the main one and an older image of the property is not
C28_Witness ==
    /\ request.handler = "upload_image"
    /\ http_response.status = 201
    /\ The(http_response.body).is_main
    /\ \E property_id \in DOMAIN properties :
          /\ request.property_id = Some(property_id)
          /\ Cardinality(MainImages(property_id)) = 1
          /\ \E image \in ImagesOf(property_images, property_id) :
                /\ ~image.is_main
                /\ image.id < The(http_response.body).id

\* the files of the directory of a property that no image row of the
\* property names
Orphans(images, files_, property_id) ==
    { f \in files_ :
        /\ f.dir = PropertyImageDir(property_id)
        /\ \A image \in ImagesOf(images, property_id) :
              image.filename # f.name }

\* C29: after update_property replaces or removes the main image of a
\* property, the file of the previous main image under
\* app/static/images/property_<id>/ no longer exists, and the directory of
\* the property holds no file without an image row
C29_OldMainFileRemoved ==
    [][ UpdateStep
          => LET id == The(request'.property_id)
             IN  \A old \in MainImages(id) :
                    old \notin property_images'
                      => /\ File(PropertyImageDir(id), old.filename)
                              \notin files'
                         /\ Orphans(property_images', files', id) = {}
      ]_vars

\* the step is a call of the backup service that returns True, or a dict
\* with success set
BackupDone ==
    /\ backup_calls' = backup_calls + 1
    /\ LET returned == The(backup_result')
       IN  \/ "return" \in DOMAIN returned /\ returned["return"]
           \/ "success" \in DOMAIN returned /\ returned["success"]

\* the step is an update_max_backups that returns False
BackupRejected ==
    /\ backup_calls' = backup_calls + 1
    /\ "return" \in DOMAIN The(backup_result')
    /\ ~The(backup_result')["return"]

\* the backups that the step removed from the directory, with the moment
\* each was written: those of before and the one the step wrote
RemovedBackups ==
    LET returned == The(backup_result')
        old == { backup_files[name].ctime :
                   name \in DOMAIN backup_files \ DOMAIN backup_files' }
    IN  IF "filename" \in DOMAIN returned
             /\ returned["filename"] \notin DOMAIN backup_files'
        THEN old \cup { now }
        ELSE old

\* C30: right after a successful create_backup and an accepted
\* update_max_backups(n) the directory holds at most max_backups backups and
\* every backup kept was written after every backup removed; an
\* update_max_backups(n) with n outside 1..50 returns False and changes
\* neither the configuration nor the files
C30_BackupRotation ==
    [][ /\ BackupDone
          => /\ Cardinality(DOMAIN backup_files')
                  <= The(backup_config')["max_backups"]
             /\ \A name \in DOMAIN backup_files' :
                   \A written \in RemovedBackups :
                      Before(written, backup_files'[name].ctime)
        /\ BackupRejected
          => UNCHANGED << backup_config, backup_files >>
      ]_vars

====
